---- MODULE Spec2Model ----
(***************************************************************************)
(* Trackr - Workday content script (src/public/contentScripts/workday.js). *)
(* The autofill orchestrator (workDayAutofill and its MutationObserver     *)
(* callback), the field matcher (workdayQuery / workdayQueryAll) and the   *)
(* field handlers, as a state machine.                                     *)
(*                                                                         *)
(* Strings are sequences of one-character strings, so that toLowerCase,    *)
(* trim and includes are computed as the JavaScript computes them.         *)
(* An optional value (getAttribute returning null) is <<>> when absent and *)
(* <<s>> when present.                                                     *)
(***************************************************************************)
EXTENDS Integers, Sequences, FiniteSets, TLC

VARIABLES
    page,                 \* what the wizard currently shows (drives the stage detector)
    dom,                  \* the document: its elements in document order, and widgets
    res,                  \* the profile record passed to workDayAutofill
    store,                \* chrome local storage (Resume, Resume_details)
    fieldObjs,            \* the per-stage sub-maps of fields.workday (shared objects)
    wrkDayFields,         \* stage name -> sub-map object (the shallow copy)
    curInstanceCompleted, \* the re-entrancy flag
    retryCount,           \* the retry counter shared by all callbacks
    cb,                   \* the invocations of the observer callback (async instances)
    pass,                 \* history of the pass most recently started
    last,                 \* history: what the latest operation was
    probe,                \* a call of one of the script's pure functions: input, result
    container,            \* a ServiceContainer: services, instances, circularDependencyCheck
    nextSerial,           \* the objects allocated so far (identity of the next new object)
    outcome,              \* history: the latest container operation and how it ended
    log,                  \* history: per service name, factory calls and instances got
    scope,                \* the container most recently returned by createScope
    bus,                  \* an EventBus: its fields and the emit call in progress
    busLog,               \* history: emit calls made, handlers invoked
    eh,                   \* an ErrorHandler: its circuit breakers, the calls in progress
    cache,                \* a CacheManager: its maps, the clock, what was used when
    ai                    \* an AIManager: rate limiter, request cache, calls in flight

\* the state of the autofill run
wdVars == <<page, dom, res, store, fieldObjs, wrkDayFields,
            curInstanceCompleted, retryCount, cb, pass, last>>
\* the state outside the autofill run
scVars == <<container, nextSerial, outcome, log, scope>>
busVars == <<bus, busLog>>
\* the state of the architecture classes other than the container
libVars == <<bus, busLog, eh, cache, ai>>
othersBus == <<page, dom, res, store, fieldObjs, wrkDayFields, curInstanceCompleted,
               retryCount, cb, pass, last, probe, scVars, eh, cache, ai>>
othersEh == <<page, dom, res, store, fieldObjs, wrkDayFields, curInstanceCompleted,
              retryCount, cb, pass, last, probe, scVars, busVars, cache, ai>>
othersCache == <<page, dom, res, store, fieldObjs, wrkDayFields, curInstanceCompleted,
                 retryCount, cb, pass, last, probe, scVars, busVars, eh, ai>>
othersAi == <<page, dom, res, store, fieldObjs, wrkDayFields, curInstanceCompleted,
              retryCount, cb, pass, last, probe, scVars, busVars, eh, cache>>
auxVars == <<probe, container, nextSerial, outcome, log, scope, libVars>>

vars == <<page, dom, res, store, fieldObjs, wrkDayFields,
          curInstanceCompleted, retryCount, cb, pass, last, probe,
          container, nextSerial, outcome, log, scope, bus, busLog, eh, cache, ai>>

-----------------------------------------------------------------------------
(* Bounds of the model *)

\* how many invocations of the observer callback may be suspended at once
MaxCallbacks == 2

\* how many work-experience blocks the page renders at most
MaxBlocks == 4

-----------------------------------------------------------------------------
(* Strings *)

None == <<>>
Some(s) == <<s>>

\* let x = v in F(x), with v computed once
Let(v, F(_)) == CHOOSE r \in {F(x) : x \in {v}} : TRUE

UpperChars == <<"A","B","C","D","E","F","G","H","I","J","K","L","M",
                "N","O","P","Q","R","S","T","U","V","W","X","Y","Z">>
LowerChars == <<"a","b","c","d","e","f","g","h","i","j","k","l","m",
                "n","o","p","q","r","s","t","u","v","w","x","y","z">>

LowerChar(c) ==
    IF \E i \in DOMAIN UpperChars : UpperChars[i] = c
    THEN LowerChars[CHOOSE i \in DOMAIN UpperChars : UpperChars[i] = c]
    ELSE c

\* String.prototype.toLowerCase
RECURSIVE LowerFrom(_, _)
LowerFrom(s, i) ==
    IF i > Len(s) THEN <<>> ELSE <<LowerChar(s[i])>> \o LowerFrom(s, i + 1)
ToLowerCase(s) == Let(s, LAMBDA v : LowerFrom(v, 1))

\* String.prototype.trim
RECURSIVE TrimStart(_)
TrimStart(s) ==
    Let(s, LAMBDA v : IF v # <<>> /\ Head(v) = " " THEN TrimStart(Tail(v)) ELSE v)
RECURSIVE TrimEnd(_)
TrimEnd(s) ==
    Let(s, LAMBDA v : IF v # <<>> /\ v[Len(v)] = " "
                      THEN TrimEnd(SubSeq(v, 1, Len(v) - 1))
                      ELSE v)
Trim(s) == TrimEnd(TrimStart(s))

\* String.prototype.includes
Includes(s, t) ==
    Let(s, LAMBDA s1 : Let(t, LAMBDA t1 :
        \E i \in 0..(Len(s1) - Len(t1)) : SubSeq(s1, i + 1, i + Len(t1)) = t1))

\* the string literals of the script and of the modelled pages
S_phonecode == <<"p","h","o","n","e","c","o","d","e">>
S_countrycode == <<"c","o","u","n","t","r","y","c","o","d","e">>
S_at == <<"@">>

-----------------------------------------------------------------------------
(* Field matcher *)

\* x?.toLowerCase().trim() of an optional string
NormOpt(o) == IF o = None THEN None ELSE Some(Trim(ToLowerCase(o[1])))

\* the candidate attribute list built for one element
Attributes(el) ==
    << NormOpt(Some(el.id)), NormOpt(Some(el.name)), NormOpt(el.aid),
       NormOpt(el.alabel), NormOpt(el.aria), NormOpt(el.placeholder),
       NormOpt(el.title) >>

\* AttrHit without the two exclusion tokens
AttrHitNoExclusion(a, normalizedParam) == Includes(a, normalizedParam)

AttrHit(a, normalizedParam) ==
    /\ Includes(a, normalizedParam)
    /\ ~Includes(a, S_phonecode)
    /\ ~Includes(a, S_countrycode)

\* An element as the document holds it. Its attributes do not change once it
\* is mounted, so the candidate list is computed once, at mount time.
Render(el) == Let(el, LAMBDA e : [e EXCEPT !.attrs = Attributes(e)])

\* the predicate of workdayQuery's find: attributes[i] != undefined && ...
QueryMatches(el, normalizedParam) ==
    \E i \in 1..7 :
        /\ el.attrs[i] # None
        /\ AttrHit(el.attrs[i][1], normalizedParam)

\* the predicate of workdayQueryAll's forEach: attributes[i] && ... (an empty
\* string is falsy)
QueryAllMatches(el, normalizedParam) ==
    \E i \in 1..7 :
        /\ el.attrs[i] # None
        /\ el.attrs[i][1] # <<>>
        /\ AttrHit(el.attrs[i][1], normalizedParam)

\* form.querySelectorAll(type): the mounted elements with that tag, in
\* document order (indices into d)
RECURSIVE SelectIdx(_, _, _, _)
SelectIdx(d, pg, type, i) ==
    IF i > Len(d) THEN <<>>
    ELSE IF d[i].tag = type /\ d[i].stage = pg
         THEN <<i>> \o SelectIdx(d, pg, type, i + 1)
         ELSE SelectIdx(d, pg, type, i + 1)
QuerySelectorAll(d, pg, type) == SelectIdx(d, pg, type, 1)

RECURSIVE FilterIdx(_, _, _, _)
FilterIdx(d, idx, normalizedParam, all) ==
    IF idx = <<>> THEN <<>>
    ELSE LET hit == IF all THEN QueryAllMatches(d[Head(idx)], normalizedParam)
                           ELSE QueryMatches(d[Head(idx)], normalizedParam)
             rest == FilterIdx(d, Tail(idx), normalizedParam, all)
         IN IF hit THEN <<Head(idx)>> \o rest ELSE rest

\* workdayQuery(jobParam, document, type): the first matching element, or
\* undefined (0)
workdayQuery(d, pg, jobParam, type) ==
    Let(ToLowerCase(jobParam), LAMBDA normalizedParam :
    Let(QuerySelectorAll(d, pg, type), LAMBDA elements :
    Let(FilterIdx(d, elements, normalizedParam, FALSE),
        LAMBDA m : IF m = <<>> THEN 0 ELSE Head(m))))

\* workdayQueryAll(jobParam, document, type): all matching elements in order
workdayQueryAll(d, pg, jobParam, type) ==
    Let(ToLowerCase(jobParam), LAMBDA normalizedParam :
    Let(QuerySelectorAll(d, pg, type), LAMBDA elements :
        FilterIdx(d, elements, normalizedParam, TRUE)))

-----------------------------------------------------------------------------
(* Configuration and inputs *)

S_firstName == <<"f","i","r","s","t","N","a","m","e">>
S_First_Name == <<"F","i","r","s","t"," ","N","a","m","e">>
S_email == <<"e","m","a","i","l">>
S_resume == <<"r","e","s","u","m","e">>
S_add == <<"a","d","d">>
S_skills == <<"s","k","i","l","l","s">>
S_Ada == <<"A","d","a">>
S_ada_at == <<"a","d","a","@","x">>
S_Go == <<"G","o">>
S_country == <<"c","o","u","n","t","r","y">>
S_Peru == <<"P","e","r","u">>
S_Chile == <<"C","h","i","l","e">>
S_Peru_South == <<"P","e","r","u"," ","(","S","o","u","t","h",")">>
S_ada == <<"a","d","a">>
S_resume_upload == <<"r","e","s","u","m","e","-","u","p","l","o","a","d">>
S_email_notes == <<"e","m","a","i","l","-","n","o","t","e","s">>
S_add_experience == <<"a","d","d","-","e","x","p","e","r","i","e","n","c","e">>
S_Go_Golang == <<"G","o"," ","|"," ","G","o","l","a","n","g">>
S_Engineer == <<"E","n","g","i","n","e","e","r">>
S_Acme == <<"A","c","m","e">>
S_Clerk == <<"C","l","e","r","k">>
S_Bank == <<"B","a","n","k">>
S_dur_ok == <<"J","a","n"," ","2","0","2","0","-","F","e","b"," ","2","0","2","1">>
S_dur_ok2 == <<"M","a","r"," ","2","0","1","8","-","D","e","c"," ","2","0","1","9">>
S_dur_bad == <<"2","0","1","7">>
S_bullets == <<"b","u","i","l","t"," ","i","t">>

\* the stages of the configured wizard
PI == "Personal Info"
ME == "My Experience"

\* fields.workday: stage name -> ordered list of (logical key, profile field)
FieldMap ==
    [s \in {PI, ME} |->
        IF s = PI
        THEN << [key |-> S_firstName, param |-> "First Name"],
                [key |-> S_email, param |-> "Email"],
                [key |-> S_country, param |-> "Country"] >>
        ELSE << [key |-> S_resume, param |-> "Resume"],
                [key |-> S_add, param |-> "Work Experience"],
                [key |-> S_skills, param |-> "Skills"] >>]

Stages == DOMAIN FieldMap
Params == {"First Name", "Email", "Country", "Resume", "Skills", "Work Experience"}

\* what getCurStageWorkday(document) can return: a configured stage, a stage
\* name the field map does not know, or null
NoStage == "null"
PageStates == Stages \cup {"Review", NoStage}

\* an element of the page
BaseEl ==
    [tag |-> "input", stage |-> PI, id |-> <<>>, name |-> <<>>,
     aid |-> None, alabel |-> None, aria |-> None, placeholder |-> None,
     title |-> None, type |-> "text", visible |-> TRUE, disabled |-> FALSE,
     options |-> <<>>, listbox |-> FALSE, value |-> <<>>, files |-> FALSE,
     nclicks |-> 0, attrs |-> <<>>]

-----------------------------------------------------------------------------
(* String literals of the handlers *)

S_jobTitle == <<"j","o","b","T","i","t","l","e">>
S_companyName == <<"c","o","m","p","a","n","y","N","a","m","e">>
S_currentlyWorkHere == <<"c","u","r","r","e","n","t","l","y","W","o","r","k","H","e","r","e">>
S_roleDescription == <<"r","o","l","e","D","e","s","c","r","i","p","t","i","o","n">>
S_startMonth == <<"s","t","a","r","t","D","a","t","e","-","d","a","t","e","S","e","c","t","i","o","n","M","o","n","t","h">>
S_startYear == <<"s","t","a","r","t","D","a","t","e","-","d","a","t","e","S","e","c","t","i","o","n","Y","e","a","r">>
S_endMonth == <<"e","n","d","D","a","t","e","-","d","a","t","e","S","e","c","t","i","o","n","M","o","n","t","h">>
S_endYear == <<"e","n","d","D","a","t","e","-","d","a","t","e","S","e","c","t","i","o","n","Y","e","a","r">>
S_decline == <<"d","e","c","l","i","n","e">>
S_self == <<"s","e","l","f">>
S_bar == <<"|">>
S_month_input == <<"m","o","n","t","h","-","i","n","p","u","t">>
S_day_input == <<"d","a","y","-","i","n","p","u","t">>
S_year_input == <<"y","e","a","r","-","i","n","p","u","t">>
S_true == <<"t","r","u","e">>
S_false == <<"f","a","l","s","e">>

\* String.prototype.split(sep) for a one-character separator
RECURSIVE Split(_, _)
Split(s, c) ==
    Let(s, LAMBDA v :
        IF \E i \in DOMAIN v : v[i] = c
        THEN Let(CHOOSE i \in DOMAIN v : v[i] = c /\ \A j \in 1..(i - 1) : v[j] # c,
                 LAMBDA k : <<SubSeq(v, 1, k - 1)>> \o Split(SubSeq(v, k + 1, Len(v)), c))
        ELSE <<v>>)

\* seq[i] of a JavaScript array (0-based): None when out of range
At(seq, i) == IF i + 1 \in DOMAIN seq THEN Some(seq[i + 1]) ELSE None

\* what the handlers return: a value or a thrown error, and the document
Ret(r, d, h) == [ret |-> r, dom |-> d, inv |-> h]

-----------------------------------------------------------------------------
(* Native value setter *)

\* setNativeValue(element, value): el = 0 is undefined, and reading its value
\* setter throws a TypeError
setNativeValue(d, el, v) == [d EXCEPT !.els[el].value = v]

-----------------------------------------------------------------------------
(* Generic field handlers *)

DateKeys == {S_month_input, S_day_input, S_year_input}
TelChars == {"0","1","2","3","4","5","6","7","8","9"," ","-","+","(",")"}

\* /^[\d\s\-\+\(\)]+$/.test(v)
TelOk(v) == v # <<>> /\ \A i \in DOMAIN v : v[i] \in TelChars

\* handleInputElement reporting success without writing the value
handleInputElementNoWrite(d, inputElement, jobParam, param, fillValue) ==
    IF inputElement = 0 THEN Ret("false", d, {"input"})
    ELSE IF ~d.els[inputElement].visible \/ d.els[inputElement].disabled
         THEN Ret("false", d, {"input"})
         ELSE Ret("true", d, {"input"})

\* handleInputElement; the Discipline branch needs a profile field named
\* "Discipline", which the modelled field map does not have
handleInputElement(d, inputElement, jobParam, param, fillValue) ==
    IF inputElement = 0 THEN Ret("false", d, {"input"})
    ELSE LET el == d.els[inputElement] IN
         IF ~el.visible \/ el.disabled THEN Ret("false", d, {"input"})
         \* res is not in scope in this function: the ReferenceError is caught
         ELSE IF jobParam \in DateKeys THEN Ret("false", d, {"input"})
         ELSE IF el.type = "email" /\ ~Includes(fillValue, S_at)
              THEN Ret("false", d, {"input"})
         ELSE IF el.type = "tel" /\ ~TelOk(fillValue)
              THEN Ret("false", d, {"input"})
         ELSE Ret("true", setNativeValue(d, inputElement, fillValue), {"input"})

handleTextareaElement(d, textareaElement, jobParam, param, fillValue) ==
    IF textareaElement = 0 THEN Ret("false", d, {"textarea"})
    ELSE Ret("true", setNativeValue(d, textareaElement, fillValue), {"textarea"})

OptionHit(text, normalizedValue) ==
    \/ Includes(ToLowerCase(text), normalizedValue)
    \/ Includes(normalizedValue, ToLowerCase(text))

\* handleSelectElement: the first option that matches is selected; with no
\* match the select's value is assigned, which selects nothing
handleSelectElement(d, selectElement, jobParam, param, fillValue) ==
    IF selectElement = 0 THEN Ret("false", d, {"select"})
    ELSE Let(d.els[selectElement].options, LAMBDA opts :
         Let(Trim(ToLowerCase(fillValue)), LAMBDA nv :
         Let({i \in DOMAIN opts : OptionHit(opts[i], nv)}, LAMBDA hits :
            IF hits # {}
            THEN Ret("true",
                     [d EXCEPT !.els[selectElement].value =
                                  opts[CHOOSE i \in hits : \A j \in hits : i <= j]],
                     {"select"})
            ELSE Ret("true", [d EXCEPT !.els[selectElement].value = <<>>],
                     {"select"}))))

\* handleDropdownElement: every option that matches is clicked, in order
handleDropdownElement(d, dropdownElement, fillValue) ==
    IF dropdownElement = 0 THEN Ret("false", d, {"dropdown"})
    ELSE Let(d.els[dropdownElement], LAMBDA el :
         Let(Trim(ToLowerCase(fillValue)), LAMBDA np :
         Let(IF Includes(np, S_decline) THEN S_decline ELSE fillValue, LAMBDA fv :
         Let({i \in DOMAIN el.options :
                \/ OptionHit(el.options[i], np)
                \/ (Includes(ToLowerCase(el.options[i]), S_self)
                      /\ fv = S_decline)}, LAMBDA hits :
            IF el.listbox /\ hits # {}
            THEN Ret("true",
                     [d EXCEPT !.els[dropdownElement].value =
                                  el.options[CHOOSE i \in hits : \A j \in hits : i >= j],
                               !.els[dropdownElement].nclicks = Cardinality(hits)],
                     {"dropdown"})
            ELSE Ret("true", [d EXCEPT !.els[dropdownElement].nclicks = 0],
                     {"dropdown"})))))

-----------------------------------------------------------------------------
(* Composite field handlers *)

\* handleResume: the file input matched by the key receives the stored file
handleResume(d, pg, st, jobParam) ==
    Let(workdayQuery(d.els, pg, jobParam, "input"), LAMBDA inputElement :
        IF st.Resume /\ inputElement # 0
        THEN Ret("true", [d EXCEPT !.els[inputElement].files = TRUE], {"resume"})
        ELSE Ret("false", d, {"resume"}))

\* the option scan of handleSkills for one skill: the first option whose
\* label contains the skill and no "|" is clicked; an option with "|" sets
\* backupOption = o.children[o], which is undefined
SkillClick(grid, skill) ==
    Let(ToLowerCase(skill), LAMBDA sk :
    Let({i \in DOMAIN grid :
            /\ Includes(ToLowerCase(grid[i]), sk)
            /\ ~Includes(ToLowerCase(grid[i]), S_bar)}, LAMBDA clean :
        IF clean = {} THEN {}
        ELSE {CHOOSE i \in clean : \A j \in clean : i <= j}))

RECURSIVE SkillsLoop(_, _)
SkillsLoop(d, skills) ==
    IF skills = <<>> THEN Ret("true", d, {"skills"})
    \* dropElement is null: dropElement.click() throws
    ELSE IF d.skillsBox # "full" THEN Ret("throw", d, {"skills"})
    ELSE Let([d EXCEPT !.typed = Append(@, Head(skills)),
                       !.picked = @ \cup SkillClick(d.grid, Head(skills))],
             LAMBDA d2 : SkillsLoop(d2, Tail(skills)))

\* handleSkills
handleSkills(d, st) ==
    IF st.details = None THEN Ret("false", d, {"skills"})
    \* querySelector(formField-skills) is null: .querySelector throws
    ELSE IF d.skillsBox = "absent" THEN Ret("throw", d, {"skills"})
    ELSE SkillsLoop(d, st.details[1].skills)

MonthNames ==
    << <<"J","a","n">>,
       <<"F","e","b">>,
       <<"M","a","r">>,
       <<"A","p","r">>,
       <<"M","a","y">>,
       <<"J","u","n">>,
       <<"J","u","l">>,
       <<"A","u","g">>,
       <<"S","e","p">>,
       <<"O","c","t">>,
       <<"N","o","v">>,
       <<"D","e","c">> >>
MonthNumbers ==
    << <<"1">>, <<"2">>, <<"3">>, <<"4">>, <<"5">>, <<"6">>, <<"7">>, <<"8">>,
       <<"9">>, <<"1","0">>, <<"1","1">>, <<"1","2">> >>

\* monthToNumber: undefined (None) for a name it does not know
monthToNumber(m) ==
    IF \E i \in DOMAIN MonthNames : MonthNames[i] = m
    THEN Some(MonthNumbers[CHOOSE i \in DOMAIN MonthNames : MonthNames[i] = m])
    ELSE None

\* the sub-fields one click on "add experience" mounts, in document order
BlockKeys == <<S_jobTitle, S_companyName, S_currentlyWorkHere, S_roleDescription,
               S_startMonth, S_startYear, S_endMonth, S_endYear>>
BlockInput(key) == Render([BaseEl EXCEPT !.aid = Some(key)])
BlockTextarea(key) == Render([BaseEl EXCEPT !.aid = Some(key), !.tag = "textarea"])
BlockTemplate ==
    << BlockInput(S_jobTitle), BlockInput(S_companyName),
       BlockInput(S_currentlyWorkHere), BlockTextarea(S_roleDescription),
       BlockInput(S_startMonth), BlockInput(S_startYear),
       BlockInput(S_endMonth), BlockInput(S_endYear) >>
BlockEls(pg) ==
    LET B(k) == [BlockTemplate[k] EXCEPT !.stage = pg]
    IN <<B(1), B(2), B(3), B(4), B(5), B(6), B(7), B(8)>>

\* addExpBtn.click(): the page mounts one more block (it renders at most
\* MaxBlocks of them)
ClickAdd(d, pg) ==
    IF d.nblocks < MaxBlocks
    THEN Let(BlockEls(pg), LAMBDA els : [d EXCEPT !.els = @ \o els, !.nblocks = @ + 1])
    ELSE d

\* the lookup without the index: always the first match
NthMatchFirst(d, pg, key, tag, i) ==
    Let(workdayQueryAll(d.els, pg, key, tag), LAMBDA m :
        IF 1 \in DOMAIN m THEN m[1] ELSE 0)

\* workdayQueryAll(key, document, tag)[i], 0 when undefined
NthMatch(d, pg, key, tag, i) ==
    Let(workdayQueryAll(d.els, pg, key, tag), LAMBDA m :
        IF i + 1 \in DOMAIN m THEN m[i + 1] ELSE 0)

BoolStr(b) == IF b THEN S_true ELSE S_false
OptStr(o) == IF o = None THEN <<>> ELSE o[1]

\* the steps of one iteration after the lookups, in program order: the
\* three writes made before jobDuration is parsed, the parse (split("-")[1]
\* is undefined without a "-", and .trim() on it throws), the four date
\* writes and the description
Write(key, tag, v) == [throw |-> FALSE, key |-> key, tag |-> tag, val |-> v]
DateSteps(from, to) ==
    << Write(S_startMonth, "input", OptStr(monthToNumber(from[1]))),
       Write(S_startYear, "input", OptStr(At(from, 1))),
       Write(S_endMonth, "input", OptStr(monthToNumber(to[1]))),
       Write(S_endYear, "input", OptStr(At(to, 1))) >>
ExpSteps(exp) ==
    Let(Split(exp.jobDuration, "-"), LAMBDA parts :
        << Write(S_jobTitle, "input", exp.jobTitle),
           Write(S_companyName, "input", exp.jobEmployer),
           Write(S_currentlyWorkHere, "input", BoolStr(exp.isCurrentEmployer)) >>
        \o IF Len(parts) < 2
           THEN << [throw |-> TRUE] >>
           ELSE Let(Split(Trim(parts[1]), " "), LAMBDA from :
                Let(Split(Trim(parts[2]), " "), LAMBDA to :
                    DateSteps(from, to)
                    \o << Write(S_roleDescription, "textarea",
                                exp.roleBulletsString) >>)))

\* the steps applied to the i-th match of each sub-field; the writes made
\* before a throw stay in the document
RECURSIVE ExpWrites(_, _, _, _)
ExpWrites(d, pg, steps, i) ==
    IF steps = <<>> THEN Ret("true", d, {"workexp"})
    ELSE IF Head(steps).throw THEN Ret("throw", d, {"workexp"})
    ELSE Let(NthMatch(d, pg, Head(steps).key, Head(steps).tag, i),
             LAMBDA el :
                IF el = 0 THEN Ret("throw", d, {"workexp"})
                ELSE Let(setNativeValue(d, el, Head(steps).val),
                         LAMBDA d2 : ExpWrites(d2, pg, Tail(steps), i)))

\* one iteration of handleWorkExperience's loop for entry i (0-based)
WorkExpEntry(d, pg, addExpBtn, exp, i) ==
    IF addExpBtn = 0 THEN Ret("throw", d, {"workexp"})
    ELSE Let(ClickAdd(d, pg), LAMBDA d1 :
         Let(ExpSteps(exp), LAMBDA steps : ExpWrites(d1, pg, steps, i)))

RECURSIVE WorkExpLoop(_, _, _, _, _)
WorkExpLoop(d, pg, addExpBtn, exps, i) ==
    IF i >= Len(exps) THEN Ret("true", d, {"workexp"})
    ELSE Let(WorkExpEntry(d, pg, addExpBtn, exps[i + 1], i),
             LAMBDA r : IF r.ret = "throw" THEN r
                        ELSE WorkExpLoop(r.dom, pg, addExpBtn, exps, i + 1))

\* handleWorkExperience
handleWorkExperience(d, pg, st, jobParam) ==
    IF st.details = None THEN Ret("false", d, {"workexp"})
    ELSE Let(workdayQuery(d.els, pg, jobParam, "button"), LAMBDA addExpBtn :
             WorkExpLoop(d, pg, addExpBtn, st.details[1].experiences, 0))

-----------------------------------------------------------------------------
(* Field dispatch: the body of the for-in loop for one entry *)

\* input -> textarea -> select -> dropdown, the first success wins
\* a chain that goes on to the textarea handler after the input handler
\* reported success
GenericChainNoStop(d, pg, jobParam, param, fillValue) ==
    Let(workdayQuery(d.els, pg, jobParam, "input"), LAMBDA inputElement :
    Let(handleInputElement(d, inputElement, jobParam, param, fillValue), LAMBDA a :
    Let(workdayQuery(a.dom.els, pg, jobParam, "textarea"), LAMBDA textareaElement :
    Let(handleTextareaElement(a.dom, textareaElement, jobParam, param, fillValue), LAMBDA b :
    IF a.ret = "true" \/ b.ret = "true" THEN Ret("true", b.dom, a.inv \cup b.inv) ELSE
    Let(workdayQuery(b.dom.els, pg, jobParam, "select"), LAMBDA selectElement :
    Let(handleSelectElement(b.dom, selectElement, jobParam, param, fillValue), LAMBDA c :
    IF c.ret = "true" THEN Ret("true", c.dom, a.inv \cup b.inv \cup c.inv) ELSE
    Let(workdayQuery(c.dom.els, pg, jobParam, "button"), LAMBDA dropdownElement :
    Let(handleDropdownElement(c.dom, dropdownElement, fillValue), LAMBDA e :
    Ret(e.ret, e.dom, a.inv \cup b.inv \cup c.inv \cup e.inv)))))))))

GenericChain(d, pg, jobParam, param, fillValue) ==
    Let(workdayQuery(d.els, pg, jobParam, "input"), LAMBDA inputElement :
    Let(handleInputElement(d, inputElement, jobParam, param, fillValue), LAMBDA a :
    IF a.ret = "true" THEN a ELSE
    Let(workdayQuery(a.dom.els, pg, jobParam, "textarea"), LAMBDA textareaElement :
    Let(handleTextareaElement(a.dom, textareaElement, jobParam, param, fillValue), LAMBDA b :
    IF b.ret = "true" THEN Ret("true", b.dom, a.inv \cup b.inv) ELSE
    Let(workdayQuery(b.dom.els, pg, jobParam, "select"), LAMBDA selectElement :
    Let(handleSelectElement(b.dom, selectElement, jobParam, param, fillValue), LAMBDA c :
    IF c.ret = "true" THEN Ret("true", c.dom, a.inv \cup b.inv \cup c.inv) ELSE
    Let(workdayQuery(c.dom.els, pg, jobParam, "button"), LAMBDA dropdownElement :
    Let(handleDropdownElement(c.dom, dropdownElement, fillValue), LAMBDA e :
    Ret(e.ret, e.dom, a.inv \cup b.inv \cup c.inv \cup e.inv)))))))))

\* the sentinel handler of a profile field name, if it has one
Composite(d, pg, st, jobParam, param) ==
    IF param = "Resume" THEN handleResume(d, pg, st, jobParam)
    ELSE IF param = "Skills" THEN handleSkills(d, st)
    ELSE IF param = "Work Experience" THEN handleWorkExperience(d, pg, st, jobParam)
    ELSE Ret("false", d, {})

\* an iteration without the test of fillValue
ProcessEntryNoDataTest(d, pg, st, profile, jobParam, param) ==
    Let(Composite(d, pg, st, jobParam, param), LAMBDA c :
        IF c.ret # "false" THEN c
        ELSE Let(GenericChain(c.dom, pg, jobParam, param, profile[param]),
                 LAMBDA g : Ret(g.ret, g.dom, c.inv \cup g.inv)))

\* One entry of the loop. ret = "throw" leaves the entry in the map; every
\* other path deletes it.
ProcessEntry(d, pg, st, profile, jobParam, param) ==
    Let(Composite(d, pg, st, jobParam, param), LAMBDA c :
        IF c.ret # "false" THEN c
        \* let fillValue = res[param]; if (!fillValue) delete, continue
        ELSE IF profile[param] = <<>> THEN Ret("nodata", c.dom, c.inv)
        ELSE Let(GenericChain(c.dom, pg, jobParam, param, profile[param]),
                 LAMBDA g : Ret(g.ret, g.dom, c.inv \cup g.inv)))

\* delete wrkDayFields[curStage][jobParam]
DeleteKey(entries, jobParam) ==
    SelectSeq(entries, LAMBDA e : e.key # jobParam)

\* an iteration that drops the entry also when it threw
RemainingDropsThrower(entries, jobParam, ret) == DeleteKey(entries, jobParam)

\* what one iteration of the for-in loop leaves of the entries: every path
\* that does not throw deletes the entry, a throw leaves the loop
Remaining(entries, jobParam, ret) ==
    IF ret = "throw" THEN entries ELSE DeleteKey(entries, jobParam)

-----------------------------------------------------------------------------
(* Stage detector *)

\* the vocabulary of the fallback path, in the order it is searched
stageIndicators ==
    << <<"M","y"," ","I","n","f","o","r","m","a","t","i","o","n">>,
       <<"M","y"," ","E","x","p","e","r","i","e","n","c","e">>,
       <<"V","o","l","u","n","t","a","r","y"," ","D","i","s","c","l","o","s","u","r","e","s">>,
       <<"S","e","l","f"," ","I","d","e","n","t","i","f","y">>,
       <<"A","d","d","i","t","i","o","n","a","l"," ","I","n","f","o","r","m","a","t","i","o","n">>,
       <<"R","e","v","i","e","w">>,
       <<"S","u","b","m","i","t">>,
       <<"P","e","r","s","o","n","a","l"," ","I","n","f","o","r","m","a","t","i","o","n">>,
       <<"W","o","r","k"," ","E","x","p","e","r","i","e","n","c","e">>,
       <<"E","d","u","c","a","t","i","o","n">>,
       <<"S","k","i","l","l","s">>,
       <<"R","e","f","e","r","e","n","c","e","s">>,
       <<"C","o","v","e","r"," ","L","e","t","t","e","r">> >>

\* the first stage of the vocabulary that the text contains (its index), 0
\* when it contains none: for (let stage of stageIndicators) if (includes)
FirstIndicatorIn(text) ==
    Let(text, LAMBDA t :
        Let({i \in DOMAIN stageIndicators : Includes(t, stageIndicators[i])}, LAMBDA hits :
            IF hits = {} THEN 0 ELSE CHOOSE i \in hits : \A j \in hits : i <= j))

\* the scan with the loops exchanged: per stage, over all headings
RECURSIVE HeadingScanStageFirstFrom(_, _)
HeadingScanStageFirstFrom(headings, i) ==
    IF i > Len(stageIndicators) THEN 0
    ELSE IF \E h \in DOMAIN headings : Includes(Trim(headings[h]), stageIndicators[i])
         THEN i
         ELSE HeadingScanStageFirstFrom(headings, i + 1)
HeadingScanStageFirst(headings) == HeadingScanStageFirstFrom(headings, 1)

\* for (let heading of headings) for (let stage of stageIndicators): the
\* first heading that contains a stage decides, 0 when none does
RECURSIVE HeadingScan(_)
HeadingScan(headings) ==
    IF headings = <<>> THEN 0
    ELSE Let(FirstIndicatorIn(Trim(Head(headings))), LAMBDA i :
             IF i # 0 THEN i ELSE HeadingScan(Tail(headings)))

\* the fallback path: headings, then the text of the whole body
\* document.body.textContent: the text of the headings, in document order,
\* and the text of the rest of the page
RECURSIVE Concat(_)
Concat(texts) == IF texts = <<>> THEN <<>> ELSE Head(texts) \o Concat(Tail(texts))
BodyText(doc) == Concat(doc.headings) \o doc.text

DetectFromContent(doc) ==
    Let(HeadingScan(doc.headings), LAMBDA h :
        IF h # 0 THEN Some(stageIndicators[h])
        ELSE Let(FirstIndicatorIn(BodyText(doc)), LAMBDA b :
                 IF b # 0 THEN Some(stageIndicators[b]) ELSE None))

\* a ?? b: b when a is null or undefined
Coalesce(a, b) == IF a # None THEN a ELSE b
\* x?.trim()
TrimOpt(o) == IF o = None THEN None ELSE Some(Trim(o[1]))

\* the label of the active step:
\* children[2]?.textContent ?? textContent?.trim() ?? getAttribute('aria-label')?.trim() ?? null
StepLabel(curStep) ==
    Coalesce(curStep.child2, Coalesce(TrimOpt(curStep.text), Coalesce(TrimOpt(curStep.aria), None)))

\* getCurStageWorkday(form): None is null, Some(text) a stage name
getCurStageWorkday(form) ==
    IF form = None THEN None
    ELSE IF form[1].progressBar = None THEN DetectFromContent(form[1])
    ELSE IF form[1].progressBar[1].active = None THEN None
    ELSE StepLabel(form[1].progressBar[1].active[1])

\* The pages of the wizard carry a progress bar whose active step holds the
\* name of the stage at the nested position; a page between two steps has a
\* progress bar with no active step.
S_Personal_Info == <<"P","e","r","s","o","n","a","l"," ","I","n","f","o">>
S_My_Experience == <<"M","y"," ","E","x","p","e","r","i","e","n","c","e">>
S_Review == <<"R","e","v","i","e","w">>
StageText == [s \in {PI, ME, "Review"} |->
                 IF s = PI THEN S_Personal_Info
                 ELSE IF s = ME THEN S_My_Experience
                 ELSE S_Review]
Step(child2, text, aria) == [child2 |-> child2, text |-> text, aria |-> aria]
Layout(pg) ==
    [progressBar |->
        Some([active |-> IF pg \in DOMAIN StageText
                         THEN Some(Step(Some(StageText[pg]), Some(StageText[pg]), None))
                         ELSE None]),
     headings |-> <<>>,
     text |-> <<>>]

\* the detected stage as a key of the field map (the same string, as the
\* model writes stage names)
StageKey(o) ==
    IF o = None THEN NoStage
    ELSE IF \E s \in DOMAIN StageText : StageText[s] = o[1]
         THEN CHOOSE s \in DOMAIN StageText : StageText[s] = o[1]
         ELSE "other"

\* let curStage = getCurStageWorkday(document)
CurStage(pg) == StageKey(getCurStageWorkday(Some(Layout(pg))))

-----------------------------------------------------------------------------
(* Orchestrator *)

maxRetries == 3
BaseDelay == 1000

Callbacks == 1..MaxCallbacks

\* wrkDayFields[stage] as the for-in loop sees it: the entries of the sub-map
\* object, none when the stage has no sub-map (for-in over undefined)
EntriesIn(heap, refs, stage) ==
    IF stage \in DOMAIN refs THEN heap[refs[stage]] ELSE <<>>
Entries(stage) == EntriesIn(fieldObjs, wrkDayFields, stage)

\* StageGuard without the re-entrancy flag
StageGuardNoFlag(curStage) ==
    /\ curStage # NoStage
    /\ curStage \in DOMAIN wrkDayFields

\* StageGuard without the lookup of the stage in wrkDayFields
StageGuardNoLookup(curStage) ==
    /\ curStage # NoStage
    /\ curInstanceCompleted

\* if (curStage && wrkDayFields[curStage] && curInstanceCompleted)
StageGuard(curStage) ==
    /\ curStage # NoStage
    /\ curStage \in DOMAIN wrkDayFields
    /\ curInstanceCompleted

\* the loop test with <= for <
WhileCondOffByOne(stageCompleted, rc) == ~stageCompleted /\ rc <= maxRetries

\* while (!stageCompleted && retryCount < maxRetries)
WhileCond(stageCompleted, rc) == ~stageCompleted /\ rc < maxRetries

\* no reset of the counter after the loop
AfterLoopNoReset(rc) == rc

\* after the loop: if (retryCount >= maxRetries) retryCount = 0
AfterLoop(rc) == IF rc >= maxRetries THEN 0 ELSE rc

\* stageCompleted = true; retryCount = 0
OnSuccess(rc) == 0

\* catch: retryCount++
OnError(rc) == rc + 1

\* a wait that does not grow
BackoffDelayConstant(rc) == BaseDelay

\* sleep(1000 * retryCount)
BackoffDelay(rc) == BaseDelay * rc

\* the sub-map of the stage cloned afresh from the configuration on entry
OnStageEntryReclone(heap, stage) ==
    [heap EXCEPT ![wrkDayFields[stage]] = FieldMap[stage]]

\* What entering a pass does to the sub-maps: nothing. wrkDayFields is built
\* once, before the observer exists, and the callback never rebuilds it.
OnStageEntry(heap, stage) == heap

\* history of the entry the loop processed last: its number in the pass, the
\* entry, how the iteration ended and the handlers it invoked
NoField == [n |-> 0, key |-> <<>>, param |-> "", ret |-> "", inv |-> {}]

NewPass(stage) ==
    [stage |-> stage, attempts |-> 0, failed |-> 0, invoked |-> {},
     left |-> Len(Entries(stage)), waits |-> <<>>, moved |-> FALSE,
     field |-> NoField]

\* a return that leaves the flag as it is
ReturnFlagKept(i, rc) ==
    /\ retryCount' = AfterLoop(rc)
    /\ cb' = [cb EXCEPT ![i].pc = "idle"]
    /\ UNCHANGED curInstanceCompleted

\* a return that starts over when the stage still has entries (as a queue of
\* pending batches would)
ReturnRequeue(i, rc) ==
    /\ retryCount' = AfterLoop(rc)
    /\ IF Entries(cb[i].curStage) # <<>>
       THEN /\ cb' = [cb EXCEPT ![i].pc = "settle"]
            /\ curInstanceCompleted' = FALSE
       ELSE /\ cb' = [cb EXCEPT ![i].pc = "idle"]
            /\ curInstanceCompleted' = TRUE

\* The callback leaves the loop and returns: from the loop's exit test to
\* curInstanceCompleted = true
Return(i, rc) ==
    /\ retryCount' = AfterLoop(rc)
    /\ curInstanceCompleted' = TRUE
    /\ cb' = [cb EXCEPT ![i].pc = "idle"]

\* The loop's test, and the attempt it starts: an attempt over no entries
\* completes the stage at once
LoopTest(i, rc, entries) ==
    IF WhileCond(FALSE, rc)
    THEN IF entries = <<>>
         THEN /\ Return(i, OnSuccess(rc))
              /\ pass' = [pass EXCEPT !.attempts = @ + 1]
         ELSE /\ cb' = [cb EXCEPT ![i].pc = "attempt"]
              /\ pass' = [pass EXCEPT !.attempts = @ + 1]
              /\ UNCHANGED <<retryCount, curInstanceCompleted>>
    ELSE /\ Return(i, rc)
         /\ UNCHANGED pass

\* why a batch starts no pass (history only)
SkipReason(curStage) ==
    IF curStage = NoStage THEN "null"
    ELSE IF curStage \notin DOMAIN wrkDayFields THEN "unknown"
    ELSE "busy"

\* The observer's callback is invoked for a batch of mutations
ObserverCallback ==
    LET curStage == CurStage(page) IN
    IF StageGuard(curStage)
    THEN \E i \in Callbacks :
            /\ cb[i].pc = "idle"
            /\ \A j \in 1..(i - 1) : cb[j].pc # "idle"
            /\ cb' = [cb EXCEPT ![i] = [pc |-> "settle", curStage |-> curStage]]
            /\ curInstanceCompleted' = FALSE
            /\ fieldObjs' = OnStageEntry(fieldObjs, curStage)
            /\ pass' = NewPass(curStage)
            /\ last' = "start"
            /\ UNCHANGED <<page, dom, res, store, wrkDayFields, retryCount>>
            /\ UNCHANGED auxVars
    ELSE /\ last' = SkipReason(curStage)
         /\ UNCHANGED auxVars
         /\ UNCHANGED <<page, dom, res, store, fieldObjs, wrkDayFields,
                        curInstanceCompleted, retryCount, cb, pass>>

\* await sleep(2000) returns; the loop is entered
Settle(i) ==
    /\ cb[i].pc = "settle"
    /\ LoopTest(i, retryCount, Entries(cb[i].curStage))
    /\ last' = "step"
    /\ UNCHANGED <<page, dom, res, store, fieldObjs, wrkDayFields>>
    /\ UNCHANGED auxVars

\* The next entry of the stage is handled: its handlers run, and the entry is
\* deleted or the error is caught
ProcessField(i) ==
    /\ cb[i].pc = "attempt"
    /\ last' = "step"
    /\ UNCHANGED <<page, res, store, wrkDayFields>>
    /\ UNCHANGED auxVars
    /\ \E stage \in {cb[i].curStage} :
       \E e \in {Head(Entries(stage))} :
       \E r \in {ProcessEntry(dom, page, store, res, e.key, e.param)} :
       \E rest \in {Remaining(Entries(stage), e.key, r.ret)} :
          /\ dom' = r.dom
          /\ fieldObjs' = [fieldObjs EXCEPT ![wrkDayFields[stage]] = rest]
          /\ IF r.ret = "throw"
             THEN /\ retryCount' = OnError(retryCount)
                  /\ cb' = [cb EXCEPT ![i].pc = "backoff"]
                  /\ pass' = [pass EXCEPT !.failed = @ + 1,
                                          !.invoked = @ \cup r.inv,
                                          !.waits = Append(@, BackoffDelay(retryCount')),
                                          !.field = [n |-> @.n + 1, key |-> e.key,
                                                     param |-> e.param, ret |-> r.ret,
                                                     inv |-> r.inv]]
                  /\ UNCHANGED curInstanceCompleted
             ELSE /\ pass' = [pass EXCEPT !.invoked = @ \cup r.inv,
                                          !.field = [n |-> @.n + 1, key |-> e.key,
                                                     param |-> e.param, ret |-> r.ret,
                                                     inv |-> r.inv]]
                  /\ IF rest = <<>>
                     THEN Return(i, OnSuccess(retryCount))
                     ELSE UNCHANGED <<retryCount, curInstanceCompleted, cb>>

\* await sleep(1000 * retryCount) returns; the loop's test is made again
Backoff(i) ==
    /\ cb[i].pc = "backoff"
    /\ LoopTest(i, retryCount, Entries(cb[i].curStage))
    /\ last' = "step"
    /\ UNCHANGED <<page, dom, res, store, fieldObjs, wrkDayFields>>
    /\ UNCHANGED auxVars

-----------------------------------------------------------------------------
(* The page *)

\* the wizard shows another step (or a page with no step)
Navigate ==
    /\ \E p \in PageStates \ {page} : page' = p
    /\ pass' = [pass EXCEPT !.moved = @ \/ ~curInstanceCompleted]
    /\ last' = "step"
    /\ UNCHANGED <<dom, res, store, fieldObjs, wrkDayFields,
                   curInstanceCompleted, retryCount, cb>>
    /\ UNCHANGED auxVars

\* the experience page mounts more of the skills widget
Mount ==
    /\ page = ME
    /\ dom.skillsBox # "full"
    /\ dom' = [dom EXCEPT !.skillsBox = IF @ = "absent" THEN "field" ELSE "full"]
    /\ last' = "step"
    /\ UNCHANGED <<page, res, store, fieldObjs, wrkDayFields,
                   curInstanceCompleted, retryCount, cb, pass>>
    /\ UNCHANGED auxVars

-----------------------------------------------------------------------------
(* The pages, profiles and stored resumes the model starts from *)

\* the page of the end-to-end scenario: <input aria-label="First Name">
DocAria == << Render([BaseEl EXCEPT !.aria = Some(S_First_Name)]) >>

\* a page whose widgets carry the logical keys in data-automation-id
DocPlain ==
    << Render([BaseEl EXCEPT !.aid = Some(S_firstName)]),
       Render([BaseEl EXCEPT !.aid = Some(S_email), !.type = "email"]),
       Render([BaseEl EXCEPT !.tag = "select", !.aid = Some(S_country),
                      !.options = <<S_Chile, S_Peru>>]),
       Render([BaseEl EXCEPT !.stage = ME, !.aid = Some(S_resume_upload), !.type = "file"]),
       Render([BaseEl EXCEPT !.stage = ME, !.tag = "button", !.aid = Some(S_add_experience)]) >>

\* the same page with a free-text box next to the e-mail input
DocNotes ==
    DocPlain \o << Render([BaseEl EXCEPT !.tag = "textarea", !.aid = Some(S_email_notes)]) >>

\* a page with a hidden input shadowing a textarea, a custom dropdown, and
\* neither a resume input nor an "add experience" button
DocCustom ==
    << Render([BaseEl EXCEPT !.aid = Some(S_firstName), !.visible = FALSE]),
       Render([BaseEl EXCEPT !.tag = "textarea", !.aid = Some(S_firstName)]),
       Render([BaseEl EXCEPT !.aid = Some(S_email)]),
       Render([BaseEl EXCEPT !.tag = "button", !.aid = Some(S_country), !.listbox = TRUE,
                      !.options = <<S_Peru, S_Peru_South>>]) >>

Profile(first, email, country) ==
    [p \in Params |-> IF p = "First Name" THEN first
                      ELSE IF p = "Email" THEN email
                      ELSE IF p = "Country" THEN country
                      ELSE <<>>]
ProfileEmpty == Profile(<<>>, <<>>, <<>>)
ProfileFull == Profile(S_Ada, S_ada_at, S_Peru)
ProfileBadEmail == Profile(S_Ada, S_ada, S_Peru)
\* a profile that also has a value under the name "Skills"
ProfileSkills == [ProfileFull EXCEPT !["Skills"] = S_Go]

ExpOk == [jobTitle |-> S_Engineer, jobEmployer |-> S_Acme, isCurrentEmployer |-> TRUE,
          jobDuration |-> S_dur_ok, roleBulletsString |-> S_bullets]
ExpOk2 == [jobTitle |-> S_Clerk, jobEmployer |-> S_Bank, isCurrentEmployer |-> FALSE,
           jobDuration |-> S_dur_ok2, roleBulletsString |-> S_bullets]
ExpBad == [jobTitle |-> S_Clerk, jobEmployer |-> S_Bank, isCurrentEmployer |-> FALSE,
           jobDuration |-> S_dur_bad, roleBulletsString |-> S_bullets]

Stored(resume, details) == [Resume |-> resume, details |-> details]
Resume2 == Some([skills |-> <<S_Go>>, experiences |-> <<ExpOk, ExpOk2>>])
ResumeBadDuration == Some([skills |-> <<S_Go>>, experiences |-> <<ExpOk, ExpBad>>])
ResumeEmpty == Some([skills |-> <<>>, experiences |-> <<>>])

\* the runs the model starts from: a page, a profile and a stored resume
Scenarios ==
    { <<DocAria, ProfileFull, Stored(FALSE, None)>>,
      <<DocPlain, ProfileFull, Stored(TRUE, Resume2)>>,
      <<DocNotes, ProfileBadEmail, Stored(TRUE, ResumeBadDuration)>>,
      <<DocPlain, ProfileEmpty, Stored(FALSE, None)>>,
      <<DocCustom, ProfileFull, Stored(TRUE, Resume2)>>,
      <<DocCustom, ProfileEmpty, Stored(FALSE, ResumeEmpty)>>,
      <<DocPlain, ProfileSkills, Stored(FALSE, None)>> }

\* the options the skills search renders
Grid == <<S_Go_Golang, S_Go>>

-----------------------------------------------------------------------------
(* ServiceContainer (core/architecture/ConfigManager.ts) *)

\* the names services are registered under
ServiceNames == {"a", "b", "c"}

\* What register receives as `service`: a function (typeof service ===
\* 'function') or any other value.  A function is known by what a call of it
\* does: "fresh" builds and returns a new object, "throws" throws.  A value
\* is an object that exists before the call.
Function(body) == [fn |-> TRUE, body |-> body, obj |-> None]
Value(obj) == [fn |-> FALSE, body |-> "none", obj |-> Some(obj)]
IsFunction(service) == service.fn

\* objects are told apart by who made them and when
Object(maker, serial, args) == [maker |-> maker, serial |-> serial, args |-> args]
Literal(k) == Object("literal", k, <<>>)

\* new ServiceContainer()
EmptyMap == [n \in {} |-> 0]
Range(seq) == {seq[k] : k \in DOMAIN seq}
\* `keys` is the order in which the Map `services` iterates: insertion order
NewContainer ==
    [services |-> EmptyMap, keys |-> <<>>, instances |-> EmptyMap,
     circularDependencyCheck |-> {}]
Has(m, name) == name \in DOMAIN m
MapSet(m, name, v) == [n \in DOMAIN m \cup {name} |-> IF n = name THEN v ELSE m[n]]
MapDelete(m, name) == [n \in DOMAIN m \ {name} |-> m[n]]

\* how an operation ends: it returns, or throws an Error whose message names
\* a service
Returned(c, n, value, made, events) ==
    [c |-> c, nextSerial |-> n, status |-> "ok", about |-> "", value |-> value,
     made |-> made, events |-> events]
Thrown(c, n, error, about, made, events) ==
    [c |-> c, nextSerial |-> n, status |-> error, about |-> about, value |-> None,
     made |-> made, events |-> events]

\* a container that accepts every name
AlreadyRegisteredNever(c, name) == FALSE
\* this.services.has(name)
AlreadyRegistered(c, name) == Has(c.services, name)

\* register(name, service, dependencies, singleton)
register(c, name, service, dependencies, singleton) ==
    IF AlreadyRegistered(c, name)
    THEN [c |-> c, status |-> "already registered", about |-> name]
    ELSE Let([name |-> name,
              instance |-> service,
              dependencies |-> dependencies,
              singleton |-> singleton,
              factory |-> IF IsFunction(service) THEN Some(service) ELSE None],
             LAMBDA definition :
                [c |-> [c EXCEPT !.services = MapSet(@, name, definition),
                                 !.keys = Append(@, name)],
                 status |-> "ok", about |-> ""])

\* a container whose finally block forgets to delete
FinallyKeeps(check, name) == check
\* finally { this.circularDependencyCheck.delete(name) }
Finally(check, name) == check \ {name}

\* a container that never stores what it built
StoresInstanceNever(definition) == FALSE
\* if (definition.singleton) this.instances.set(name, instance)
StoresInstance(definition) == definition.singleton

\* the call of a registered function with the resolved dependencies
Invoke(f, name, serial, resolvedDependencies) ==
    IF f.body = "throws" THEN None
    ELSE Some(Object(name, serial, [k \in DOMAIN resolvedDependencies |->
                                       resolvedDependencies[k].serial]))

\* get(name), called with `stack` services being resolved above it.  The
\* result carries, as history, the functions invoked (made) and every call
\* of get with the stack it was made under (events).
RECURSIVE get(_, _, _, _)
RECURSIVE ResolveDependencies(_, _, _, _, _)

\* definition.dependencies.map(dep => this.get(dep)): left to right, the
\* first throw ends it
ResolveDependencies(c, n, deps, stack, acc) ==
    IF deps = <<>> THEN Returned(c, n, acc, <<>>, <<>>)
    ELSE Let(get(c, n, Head(deps), stack), LAMBDA r :
             IF r.status # "ok" THEN r
             ELSE Let(ResolveDependencies(r.c, r.nextSerial, Tail(deps), stack,
                                          Append(acc, r.value[1])),
                      LAMBDA rest :
                         [rest EXCEPT !.made = r.made \o @,
                                      !.events = r.events \o @]))

\* the try block once the dependencies are resolved
CreateInstance(name, definition, d) ==
    Let(IF definition.factory # None
        THEN Invoke(definition.factory[1], name, d.nextSerial, d.value)
        ELSE definition.instance.obj,
        LAMBDA instance :
            Let(IF definition.factory # None THEN Append(d.made, name) ELSE d.made,
                LAMBDA made :
                   IF instance = None
                   THEN Thrown(d.c, d.nextSerial, "factory error", name, made, d.events)
                   ELSE Returned(IF StoresInstance(definition)
                                 THEN [d.c EXCEPT !.instances = MapSet(@, name, instance[1])]
                                 ELSE d.c,
                                 IF definition.factory # None
                                 THEN d.nextSerial + 1 ELSE d.nextSerial,
                                 instance, made, d.events)))

get(c, n, name, stack) ==
    Let(<< [name |-> name, stack |-> stack] >>, LAMBDA ev :
    IF ~Has(c.services, name)
    THEN Thrown(c, n, "not registered", name, <<>>, ev)
    ELSE Let(c.services[name], LAMBDA definition :
         IF definition.singleton /\ Has(c.instances, name)
         THEN Returned(c, n, Some(c.instances[name]), <<>>, ev)
         ELSE IF name \in c.circularDependencyCheck
         THEN Thrown(c, n, "circular dependency", name, <<>>, ev)
         ELSE Let(ResolveDependencies(
                      [c EXCEPT !.circularDependencyCheck = @ \cup {name}], n,
                      definition.dependencies, Append(stack, name), <<>>),
                  LAMBDA d :
                  Let(IF d.status # "ok" THEN d
                      ELSE CreateInstance(name, definition, d),
                      LAMBDA r :
                         [r EXCEPT !.c.circularDependencyCheck = Finally(@, name),
                                   !.events = ev \o @]))))

\* remove(name)
remove(c, name) ==
    [c EXCEPT !.services = MapDelete(@, name),
              !.keys = SelectSeq(@, LAMBDA k : k # name),
              !.instances = MapDelete(@, name)]

\* getTopologicalSort(): the state of the walk is visited, visiting and
\* result; a throw leaves it with the error
RECURSIVE visit(_, _, _)
RECURSIVE VisitEach(_, _, _)
\* for (const dependency of definition.dependencies) visit(dependency)
VisitEach(c, w, names) ==
    IF names = <<>> \/ w.status # "ok" THEN w
    ELSE Let(visit(c, w, Head(names)), LAMBDA w1 : VisitEach(c, w1, Tail(names)))
visit(c, w, name) ==
    IF name \in w.visiting
    THEN [w EXCEPT !.status = "circular dependency", !.about = name]
    ELSE IF name \in w.visited THEN w
    ELSE Let(VisitEach(c, [w EXCEPT !.visiting = @ \cup {name}],
                       IF Has(c.services, name) THEN c.services[name].dependencies
                       ELSE <<>>),
             LAMBDA w1 :
                IF w1.status # "ok" THEN w1
                ELSE [w1 EXCEPT !.visiting = @ \ {name},
                                !.visited = @ \cup {name},
                                !.result = Append(@, name)])
\* for (const name of this.services.keys()) if (!visited.has(name)) visit(name)
RECURSIVE SortFrom(_, _, _)
SortFrom(c, w, names) ==
    IF names = <<>> \/ w.status # "ok" THEN w
    ELSE Let(IF Head(names) \in w.visited THEN w ELSE visit(c, w, Head(names)),
             LAMBDA w1 : SortFrom(c, w1, Tail(names)))
getTopologicalSort(c) ==
    SortFrom(c, [visited |-> {}, visiting |-> {}, result |-> <<>>,
                 status |-> "ok", about |-> ""], c.keys)

\* createScope(): a new container with a copy { ...definition } of every
\* definition, in the parent's order, and no instances; the copy of a
\* definition holds the same service object or function as the original
createScope(c) ==
    [NewContainer EXCEPT !.services = [n \in DOMAIN c.services |-> c.services[n]],
                         !.keys = c.keys]

\* no scope has been created yet; got and copied are history: the instances
\* get returned on the scope per name, and the names whose definition is
\* still the one createScope copied, in both containers
NoScope == [made |-> FALSE, c |-> NewContainer,
            got |-> [n \in ServiceNames |-> {}], copied |-> {}]

\* the container as the application holds it: constructed empty
NoOutcome == [op |-> "none", name |-> "", status |-> "ok", about |-> "",
              value |-> None, made |-> <<>>, events |-> <<>>]
NoLog == [calls |-> 0, got |-> {}]
ContainerInit ==
    /\ container = NewContainer
    /\ nextSerial = 1
    /\ outcome = NoOutcome
    /\ log = [n \in ServiceNames |-> NoLog]
    /\ scope = NoScope

-----------------------------------------------------------------------------
(* EventBus (core/architecture/EventBus) *)

\* A handler is known by what a call of it does: "plain" returns, "throws"
\* throws, "emits" calls this.emit("f", payload) on the bus and returns.  A
\* filter is absent or accepts the payloads of its set.
Handler(body) == [body |-> body]
NoFilter == None
FilterOn(payloads) == Some(payloads)
Options(priority, once, filter) == [priority |-> priority, once |-> once, filter |-> filter]

\* new EventBus(); `cur` is the emit call that holds isEmitting: where its
\* loops stand (pc, i) and what it was called with
NoEmit == [pc |-> "idle", event |-> "", payload |-> 0, n |-> 0, i |-> 0, own |-> FALSE]
NewBus ==
    [subscriptions |-> EmptyMap, wildcardSubscriptions |-> <<>>,
     isEmitting |-> FALSE, emitQueue |-> <<>>, cur |-> NoEmit]

\* subscriptions.sort((a, b) => (b.priority || 0) - (a.priority || 0)): a
\* stable sort, by insertion
RECURSIVE InsertByPriority(_, _)
InsertByPriority(sorted, sub) ==
    IF sorted = <<>> THEN <<sub>>
    ELSE IF Head(sorted).priority >= sub.priority
         THEN <<Head(sorted)>> \o InsertByPriority(Tail(sorted), sub)
         ELSE <<sub>> \o sorted
RECURSIVE sortSubscriptions(_)
sortSubscriptions(subs) ==
    IF subs = <<>> THEN <<>>
    ELSE InsertByPriority(sortSubscriptions(SubSeq(subs, 1, Len(subs) - 1)),
                          subs[Len(subs)])

\* on(event, handler, options) with the id generateId() returns
on(b, id, event, handler, options) ==
    Let([id |-> id, event |-> event, handler |-> handler, once |-> options.once,
         priority |-> options.priority, filter |-> options.filter],
        LAMBDA subscription :
            IF event = "*"
            THEN [b EXCEPT !.wildcardSubscriptions = Append(@, subscription)]
            ELSE Let(IF Has(b.subscriptions, event) THEN b.subscriptions[event] ELSE <<>>,
                     LAMBDA list :
                        [b EXCEPT !.subscriptions =
                            MapSet(@, event, sortSubscriptions(Append(list, subscription)))]))

\* off(subscriptionId): splice it out of the list that holds it, delete it
\* from the wildcard set
Without(subs, id) == SelectSeq(subs, LAMBDA sub : sub.id # id)
off(b, id) ==
    [b EXCEPT !.subscriptions = [e \in DOMAIN @ |-> Without(@[e], id)],
              !.wildcardSubscriptions = Without(@, id)]

\* emit(event, payload) as far as its first await: an emit in progress
\* queues the call, otherwise the call takes isEmitting and starts on the
\* list of the event (a list of its own, [], when the event has none)
emit(b, n, event, payload) ==
    IF b.isEmitting
    THEN [b EXCEPT !.emitQueue = Append(@, [event |-> event, payload |-> payload, n |-> n])]
    ELSE [b EXCEPT !.isEmitting = TRUE,
                   !.cur = [pc |-> "subs", event |-> event, payload |-> payload,
                            n |-> n, i |-> 0, own |-> ~Has(b.subscriptions, event)]]

FilterAccepts(subscription, payload) ==
    subscription.filter = None \/ payload \in subscription.filter[1]

\* processSubscription(subscription, payload); st is the bus with its
\* history [b, log]
processSubscription(st, subscription, payload) ==
    IF ~FilterAccepts(subscription, payload) THEN st
    ELSE Let([st EXCEPT !.log.delivered =
                            Append(@, [n |-> st.b.cur.n, id |-> subscription.id])],
             LAMBDA called :
             Let(IF subscription.handler.body = "emits"
                 THEN [called EXCEPT !.b = emit(@, called.log.emits + 1, "f", payload),
                                     !.log.emits = @ + 1]
                 ELSE called,
                 LAMBDA handled :
                    IF subscription.once
                    THEN [handled EXCEPT !.b = off(@, subscription.id)]
                    ELSE handled))

\* the list for (const subscription of eventSubscriptions) walks: the live
\* array of the event
EventSubscriptions(b) ==
    IF b.cur.own \/ ~Has(b.subscriptions, b.cur.event) THEN <<>>
    ELSE b.subscriptions[b.cur.event]

\* one turn of the loop over the event's subscriptions: the array iterator
\* takes the element at its index and moves on by one, whatever the body did
\* to the array
NextSubscription(st) ==
    Let(EventSubscriptions(st.b), LAMBDA list :
        IF st.b.cur.i < Len(list)
        THEN Let(processSubscription(st, list[st.b.cur.i + 1], st.b.cur.payload),
                 LAMBDA done : [done EXCEPT !.b.cur.i = @ + 1])
        ELSE [st EXCEPT !.b.cur.pc = "wild", !.b.cur.i = 0])

\* one turn of the loop over the wildcard set: a Set iterator is not thrown
\* off by the deletion of the entry it stands on
NextWildcard(st) ==
    Let(st.b.wildcardSubscriptions, LAMBDA set :
        IF st.b.cur.i < Len(set)
        THEN Let(processSubscription(st, set[st.b.cur.i + 1], st.b.cur.payload),
                 LAMBDA done :
                    [done EXCEPT !.b.cur.i =
                        IF Len(done.b.wildcardSubscriptions) < Len(set) THEN @ ELSE @ + 1])
        ELSE [st EXCEPT !.b.cur.pc = "drain", !.b.cur.i = 0,
                        !.log.served = @ \cup {st.b.cur.n}])

\* the queue is drained one event at a time by a nested emit
DrainByNestedEmit(b, queued) == emit(b, queued.n, queued.event, queued.payload)
\* while (this.emitQueue.length > 0) { queued = shift(); await this.emit(...) }
\* and, the queue empty, finally { this.isEmitting = false }
NextQueued(st) ==
    IF st.b.emitQueue # <<>>
    THEN Let(Head(st.b.emitQueue), LAMBDA queued :
             [st EXCEPT !.b = DrainByNestedEmit([@ EXCEPT !.emitQueue = Tail(@)], queued)])
    ELSE [st EXCEPT !.b.isEmitting = FALSE, !.b.cur = NoEmit]

\* history of a bus: ids given out, emit calls made, handler calls in order
\* (emit call, subscription), the subscriptions each emit call found for its
\* event, the emit calls whose handlers have all been dealt with
NoBusLog == [ids |-> 0, emits |-> 0, delivered |-> <<>>, found |-> EmptyMap, served |-> {}]
BusInit ==
    /\ bus = NewBus
    /\ busLog = NoBusLog


-----------------------------------------------------------------------------
(* ErrorHandler: retry and the circuit breakers *)

\* the errors an operation rejects with, by Error.name and message
Errors == {"TypeError", "NetworkError"}
isFatalError(error) == error \in {"TypeError", "ReferenceError", "SyntaxError"}
isNetworkError(error) == error = "NetworkError"

\* the retry conditions of the configurations 'default' and 'network'
RetryCondition(tag, error) ==
    IF tag = "network" THEN isNetworkError(error) ELSE ~isFatalError(error)

\* getRetryConfig: the base configuration overridden by the custom one; delays
\* are in units of the clock
getRetryConfig(maxAttempts, tag) ==
    [maxAttempts |-> maxAttempts, baseDelay |-> 1, maxDelay |-> 2,
     backoffMultiplier |-> 2, retryCondition |-> tag]

\* the jitter is a fraction of the delay, below one unit of the clock
calculateDelay(attempt, config) ==
    IF config.baseDelay * (config.backoffMultiplier ^ (attempt - 1)) < config.maxDelay
    THEN config.baseDelay * (config.backoffMultiplier ^ (attempt - 1))
    ELSE config.maxDelay

NewCircuitBreaker(config) ==
    [config |-> config, state |-> "CLOSED", failureCount |-> 0,
     lastFailureTime |-> 0, halfOpenCalls |-> 0]

recordSuccess(breaker) ==
    [breaker EXCEPT !.failureCount = 0, !.state = "CLOSED", !.halfOpenCalls = 0]

OpensAt(breaker, failureCount) == failureCount >= breaker.config.failureThreshold

recordFailure(breaker, now) ==
    [breaker EXCEPT !.failureCount = @ + 1,
                    !.lastFailureTime = now,
                    !.halfOpenCalls = @ + 1,
                    !.state = IF OpensAt(breaker, breaker.failureCount + 1)
                              THEN "OPEN" ELSE @]

\* CircuitBreaker.execute up to the call of the operation: the breaker as it
\* is left, and whether the operation is called or which error is thrown
Admit(breaker, now) ==
    Let(IF breaker.state = "OPEN" /\ now - breaker.lastFailureTime > breaker.config.recoveryTimeout
        THEN [breaker EXCEPT !.state = "HALF_OPEN", !.halfOpenCalls = 0]
        ELSE breaker,
        LAMBDA br :
            IF br.state = "OPEN"
            THEN [breaker |-> br, verdict |-> "Circuit breaker is OPEN"]
            ELSE IF br.state = "HALF_OPEN" /\ br.halfOpenCalls >= br.config.halfOpenMaxCalls
            THEN [breaker |-> br, verdict |-> "Circuit breaker HALF_OPEN call limit exceeded"]
            ELSE [breaker |-> br, verdict |-> "run"])

\* a call of retry or executeWithCircuitBreaker: where it stands, the outcomes
\* of the operation's invocations so far, the waits so far, how it ended
NoCall ==
    [kind |-> "none", pc |-> "idle", name |-> "", config |-> getRetryConfig(0, "default"),
     attempt |-> 0, hist |-> <<>>, sleeps |-> 0, wake |-> 0,
     result |-> "none", error |-> ""]

\* a retry that rethrows on the condition alone
RethrowsOnCondition(config, error, attempt) ==
    ~RetryCondition(config.retryCondition, error)

\* retry after the operation rejected with `error`: rethrow, or wait
Rethrows(config, error, attempt) ==
    ~RetryCondition(config.retryCondition, error) \/ attempt = config.maxAttempts

-----------------------------------------------------------------------------
(* CacheManager *)

\* a Map as the sequence of its entries in insertion order; every entry has
\* the field `key`
Keys(m) == {m[k].key : k \in DOMAIN m}
Entry(m, key) == m[CHOOSE k \in DOMAIN m : m[k].key = key]
MapPut(m, e) ==
    IF e.key \in Keys(m)
    THEN [k \in DOMAIN m |-> IF m[k].key = e.key THEN e ELSE m[k]]
    ELSE Append(m, e)
MapRemove(m, key) == SelectSeq(m, LAMBDA e : e.key # key)

\* `used` and `evicted` are history: per cached key the serial of the latest
\* set or get of it, and what the latest set evicted
NewCacheManager ==
    [cache |-> <<>>, options |-> <<>>,
     statistics |-> [hits |-> 0, misses |-> 0, evictions |-> 0],
     now |-> 0, ops |-> 0, op |-> "none", used |-> EmptyMap, evicted |-> {},
     bounded |-> TRUE]

isExpired(entry, now) == entry.ttl # 0 /\ now - entry.timestamp > entry.ttl

RECURSIVE OldestFrom(_, _, _, _)
OldestFrom(entries, k, oldestTime, oldestKey) ==
    IF k > Len(entries) THEN oldestKey
    ELSE IF entries[k].timestamp < oldestTime
    THEN OldestFrom(entries, k + 1, entries[k].timestamp, Some(entries[k].key))
    ELSE OldestFrom(entries, k + 1, oldestTime, oldestKey)

findLRUEntry(cm) == OldestFrom(cm.cache, 1, cm.now, None)

\* every strategy is findLRUEntry
evictEntry(cm, strategy) ==
    Let(findLRUEntry(cm), LAMBDA entryToEvict :
        IF entryToEvict = None THEN cm
        ELSE [cm EXCEPT !.cache = MapRemove(@, entryToEvict[1]),
                        !.options = MapRemove(@, entryToEvict[1]),
                        !.statistics.evictions = @ + 1,
                        !.used = MapDelete(@, entryToEvict[1]),
                        !.evicted = @ \cup {[key |-> entryToEvict[1],
                                             used |-> cm.used[entryToEvict[1]]]}])

\* the loop over the Map `options`: entries deleted before they are reached
\* are not visited
RECURSIVE EnforceFrom(_, _)
EnforceFrom(cm, keys) ==
    IF keys = <<>> THEN cm
    ELSE IF Head(keys) \notin Keys(cm.options) THEN EnforceFrom(cm, Tail(keys))
    ELSE Let(Entry(cm.options, Head(keys)), LAMBDA options :
            IF options.maxSize # 0 /\ Len(cm.cache) > options.maxSize
            THEN EnforceFrom(evictEntry(cm, options.strategy), Tail(keys))
            ELSE EnforceFrom(cm, Tail(keys)))

enforceSizeLimit(cm) == EnforceFrom(cm, [k \in DOMAIN cm.options |-> cm.options[k].key])

\* options.maxSize = 0 stands for an absent maxSize
cacheSet(cm, key, value, options) ==
    enforceSizeLimit(
        [cm EXCEPT !.cache = MapPut(@, [key |-> key, value |-> value,
                                        timestamp |-> cm.now, ttl |-> options.ttl]),
                   !.options = MapPut(@, [key |-> key, maxSize |-> options.maxSize,
                                          strategy |-> options.strategy]),
                   !.ops = @ + 1, !.op = "set",
                   !.used = MapSet(@, key, cm.ops + 1),
                   !.evicted = {},
                   !.bounded = @ /\ options.maxSize # 0])

cacheGet(cm, key) ==
    IF key \notin Keys(cm.cache)
    THEN [cm EXCEPT !.statistics.misses = @ + 1, !.ops = @ + 1, !.op = "get"]
    ELSE IF isExpired(Entry(cm.cache, key), cm.now)
    THEN [cm EXCEPT !.cache = MapRemove(@, key),
                    !.options = MapRemove(@, key),
                    !.statistics.misses = @ + 1,
                    !.used = MapDelete(@, key),
                    !.ops = @ + 1, !.op = "get"]
    ELSE [cm EXCEPT !.statistics.hits = @ + 1,
                    !.used = MapSet(@, key, cm.ops + 1),
                    !.ops = @ + 1, !.op = "get"]

CacheInit == cache = NewCacheManager

-----------------------------------------------------------------------------
(* AIManager *)

\* the window and the limit of checkRateLimit, scaled down from 60000 ms and
\* 60 requests
windowMs == 2
maxRequests == 2

\* `passed` and `ended` are history: when each request passed the rate-limit
\* check, and how the latest call of generateResponse went on
NewAIManager ==
    [rateLimiter |-> EmptyMap, requestCache |-> {}, pending |-> {},
     now |-> 0, passed |-> <<>>, ended |-> "none"]

\* `ai_${Date.now()}_${random}`
generateRequestId(now, random) == <<"ai", now, random>>

\* btoa(prompt + contextStr).substr(0, 32): 32 characters of base64 stand for
\* the first 24 bytes (the context is empty)
generateCacheKey(prompt) ==
    SubSeq(prompt, 1, IF Len(prompt) < 24 THEN Len(prompt) ELSE 24)

\* the limiter as it is left, and the verdict
checkRateLimit(rateLimiter, requestId, now) ==
    IF ~Has(rateLimiter, requestId) \/ now > rateLimiter[requestId].resetTime
    THEN [rateLimiter |-> MapSet(rateLimiter, requestId,
                                 [count |-> 1, resetTime |-> now + windowMs]),
          ok |-> TRUE]
    ELSE IF rateLimiter[requestId].count >= maxRequests
    THEN [rateLimiter |-> rateLimiter, ok |-> FALSE]
    ELSE [rateLimiter |-> [rateLimiter EXCEPT ![requestId].count = @ + 1], ok |-> TRUE]

\* generateResponse up to the API call
generateResponse(am, requestId, prompt) ==
    Let(checkRateLimit(am.rateLimiter, requestId, am.now), LAMBDA limit :
        IF ~limit.ok
        THEN [am EXCEPT !.ended = "Rate limit exceeded"]
        ELSE IF generateCacheKey(prompt) \in am.requestCache
        THEN [am EXCEPT !.rateLimiter = limit.rateLimiter,
                        !.passed = Append(@, am.now),
                        !.ended = "cached"]
        ELSE [am EXCEPT !.rateLimiter = limit.rateLimiter,
                        !.passed = Append(@, am.now),
                        !.pending = @ \cup {generateCacheKey(prompt)},
                        !.ended = "api"])

AiInit == ai = NewAIManager

\* how many calls run at once, how many are made, how far the clock runs, the
\* largest maxAttempts a caller configures
MaxTasks == 2
MaxExecutions == 4
MaxTime == 3
MaxAttempts == 3
Tasks == 1..MaxTasks

\* the history keeps the number of failed executions of the breaker since its
\* last successful one, and the number of operations the breaker has let
\* through since it last became HALF_OPEN (0 while it is not HALF_OPEN)
NewErrorHandler ==
    [now |-> 0, circuitBreakers |-> EmptyMap, task |-> [t \in Tasks |-> NoCall],
     retry_attempts_total |-> 0, calls |-> 0, streak |-> 0, halfOpenAdmitted |-> 0]
\* the count carried over a step that takes the breaker from `before` to `after`
HalfOpenCarried(count, before, after) ==
    IF after.state # "HALF_OPEN" THEN 0
    ELSE IF before.state # "HALF_OPEN" THEN 0
    ELSE count
EhInit == eh = NewErrorHandler

LibInit == BusInit /\ EhInit /\ CacheInit /\ AiInit

-----------------------------------------------------------------------------
(* Construction: workDayAutofill up to observer.observe *)

\* fields.workday: the configured objects, one per stage
ConfigRefs == [s \in Stages |-> <<"fields.workday", s>>]
ConfigHeap == [o \in {ConfigRefs[s] : s \in Stages} |-> FieldMap[o[2]]]

\* Object.assign({}, fields.workday): the top level is copied, the sub-maps
\* are shared
ObjectAssign(refs, heap) == [refs |-> refs, heap |-> heap]

\* no pure function is being called
NoProbe == [fn |-> "none"]

\* workDayAutofill has installed its observer on the pages, profile and
\* storage of one of the scenarios scs
WorkdayInit(scs) ==
    /\ page = NoStage
    /\ \E sc \in scs :
          /\ dom = [els |-> sc[1], skillsBox |-> "absent", grid |-> Grid, typed |-> <<>>,
                    picked |-> {}, nblocks |-> 0]
          /\ res = sc[2]
          /\ store = sc[3]
    /\ LET c == ObjectAssign(ConfigRefs, ConfigHeap)
       IN wrkDayFields = c.refs /\ fieldObjs = c.heap
    /\ curInstanceCompleted = TRUE
    /\ retryCount = 0
    /\ cb = [i \in Callbacks |-> [pc |-> "idle", curStage |-> NoStage]]
    /\ pass = [stage |-> NoStage, attempts |-> 0, failed |-> 0, invoked |-> {},
               left |-> 0, waits |-> <<>>, moved |-> FALSE, field |-> NoField]
    /\ last = "init"

Init ==
    /\ WorkdayInit(Scenarios)
    /\ probe = NoProbe
    /\ ContainerInit
    /\ LibInit

Next ==
    \/ ObserverCallback
    \/ \E i \in Callbacks : Settle(i)
    \/ \E i \in Callbacks : ProcessField(i)
    \/ \E i \in Callbacks : Backoff(i)
    \/ Navigate
    \/ Mount

Spec == Init /\ [][Next]_vars

\* every sleep returns and every handler invocation returns or throws
\* The event loop resumes every callback that waits: a sleep's timer fires
\* (weak fairness of Settle and Backoff), and a handler that was called
\* returns or throws. The last is weak fairness of ProcessField(i), with
\* ENABLED <<ProcessField(i)>>_vars written out as cb[i].pc = "attempt".
FairSpec ==
    /\ Spec
    /\ \A i \in Callbacks : WF_vars(Settle(i)) /\ WF_vars(Backoff(i))
    /\ \A i \in Callbacks :
          []<>(cb[i].pc # "attempt") \/ []<><<ProcessField(i)>>_vars

-----------------------------------------------------------------------------
(* The field matcher on its own: workdayQuery and workdayQueryAll are called
   on a form, a key and a tag, and their results recorded *)

S_Email_Address == <<"E","m","a","i","l"," ","A","d","d","r","e","s","s">>
S_phoneCode == <<"p","h","o","n","e","C","o","d","e">>
S_code == <<"c","o","d","e">>
S_Code == <<"C","o","d","e">>
S_EMAIL_padded == <<" ","E","M","A","I","L"," ">>
S_Email == <<"E","m","a","i","l">>

\* how many elements a probed form has at most
MaxFormLen == 2

\* the elements the probed forms are made of
ElAriaEmail == Render([BaseEl EXCEPT !.aria = Some(S_Email_Address)])
ElPhoneCode == Render([BaseEl EXCEPT !.name = S_phoneCode])
ElBare == Render(BaseEl)
ElPhoneCodePlus == Render([BaseEl EXCEPT !.name = S_phoneCode, !.placeholder = Some(S_Code)])
ElTitlePadded == Render([BaseEl EXCEPT !.title = Some(S_EMAIL_padded)])
ElTextarea == Render([BaseEl EXCEPT !.tag = "textarea", !.aid = Some(S_email)])
ProbeEls == {ElAriaEmail, ElPhoneCode, ElBare, ElPhoneCodePlus, ElTitlePadded, ElTextarea}

RECURSIVE FormsOfLen(_)
FormsOfLen(n) ==
    IF n = 0 THEN {<<>>}
    ELSE {Append(f, e) : f \in FormsOfLen(n - 1), e \in ProbeEls}
ProbeForms == UNION {FormsOfLen(n) : n \in 0..MaxFormLen}
ProbeKeys == {<<>>, S_email, S_Email, S_code}
ProbeTypes == {"input", "textarea"}

\* the run the autofill variables rest in while a function is probed
IdleScenarios == { <<DocAria, ProfileFull, Stored(FALSE, None)>> }

MatcherInit ==
    /\ WorkdayInit(IdleScenarios)
    /\ \E f \in ProbeForms, k \in ProbeKeys, t \in ProbeTypes :
          probe = [fn |-> "workdayQuery", form |-> f, jobParam |-> k, type |-> t,
                   done |-> FALSE, one |-> 0, all |-> <<>>]
    /\ ContainerInit
    /\ LibInit

\* both matchers are called with the probe's arguments
MatcherQuery ==
    /\ probe.fn = "workdayQuery"
    /\ ~probe.done
    /\ probe' = [probe EXCEPT
                   !.done = TRUE,
                   !.one = workdayQuery(probe.form, PI, probe.jobParam, probe.type),
                   !.all = workdayQueryAll(probe.form, PI, probe.jobParam, probe.type)]
    /\ UNCHANGED wdVars
    /\ UNCHANGED scVars
    /\ UNCHANGED libVars

MatcherNext == MatcherQuery

MatcherSpec == MatcherInit /\ [][MatcherNext]_vars

-----------------------------------------------------------------------------
(* The stage detector on its own: one call per document *)

S_Work_Experience == <<"W","o","r","k"," ","E","x","p","e","r","i","e","n","c","e">>
S_Review_Work_Experience == <<"R","e","v","i","e","w"," ","W","o","r","k"," ","E","x","p","e","r","i","e","n","c","e">>
S_Education == <<"E","d","u","c","a","t","i","o","n">>
S_Welcome == <<"W","e","l","c","o","m","e">>
S_Work_Experience_padded == <<" "," ","W","o","r","k"," ","E","x","p","e","r","i","e","n","c","e"," "," ">>
S_Review_padded == <<" "," ","R","e","v","i","e","w"," ">>
S_please_review == <<"p","l","e","a","s","e"," ","r","e","v","i","e","w"," ","y","o","u","r"," ","s","k","i","l","l","s">>
S_Skills_and_Education == <<"E","d","u","c","a","t","i","o","n"," ","a","n","d"," ","S","k","i","l","l","s">>

MaxHeadings == 2
HeadingPool == {S_Work_Experience, S_Review_Work_Experience, S_Education,
                S_Welcome, S_Work_Experience_padded}
RECURSIVE HeadingsOfLen(_)
HeadingsOfLen(n) ==
    IF n = 0 THEN {<<>>}
    ELSE {<<h>> \o hs : h \in HeadingPool, hs \in HeadingsOfLen(n - 1)}
ProbeHeadings == UNION {HeadingsOfLen(n) : n \in 0..MaxHeadings}
ProbeTexts == {<<>>, S_please_review, S_Skills_and_Education}
ProbeSteps == {Step(Some(S_My_Experience), Some(S_My_Experience), None),
               Step(None, Some(S_Review_padded), None),
               Step(None, Some(<<>>), Some(S_Review))}
ProbeBars == {None, Some([active |-> None])}
                 \cup {Some([active |-> Some(st)]) : st \in ProbeSteps}
ProbeDocs == {None} \cup
             {Some([progressBar |-> b, headings |-> hs, text |-> t]) :
                 b \in ProbeBars, hs \in ProbeHeadings, t \in ProbeTexts}

DetectorInit ==
    /\ WorkdayInit(IdleScenarios)
    /\ \E f \in ProbeDocs :
          probe = [fn |-> "getCurStageWorkday", form |-> f, done |-> FALSE, out |-> None]
    /\ ContainerInit
    /\ LibInit

\* the detector is called on the probe's document
DetectorQuery ==
    /\ probe.fn = "getCurStageWorkday"
    /\ ~probe.done
    /\ probe' = [probe EXCEPT !.done = TRUE, !.out = getCurStageWorkday(probe.form)]
    /\ UNCHANGED wdVars
    /\ UNCHANGED scVars
    /\ UNCHANGED libVars

DetectorNext == DetectorQuery

DetectorSpec == DetectorInit /\ [][DetectorNext]_vars

-----------------------------------------------------------------------------
(* The ServiceContainer on its own: register, get and remove in any order *)

MaxObjects == 2
MaxCalls == 2

\* what callers register: per name a few dependency lists (so that cycles of
\* length one, two and three and shared dependencies occur), functions that
\* build an object or throw, plain objects, singleton or not
DependencyLists ==
    [n \in ServiceNames |->
        IF n = "a" THEN {<<"a">>, <<"b", "c">>}
        ELSE IF n = "b" THEN {<<"c">>, <<"a">>}
        ELSE {<<>>, <<"a">>}]
Registrable ==
    [n \in ServiceNames |->
        IF n = "c" THEN {Function("fresh"), Function("throws"), Value(Literal(1))}
        ELSE {Function("fresh")}]

SingletonChoices == [n \in ServiceNames |-> IF n = "b" THEN {TRUE} ELSE BOOLEAN]

\* the number of times x occurs in the sequence
Count(seq, x) == Cardinality({k \in DOMAIN seq : seq[k] = x})

Register(name, service, dependencies, singleton) ==
    \E r \in {register(container, name, service, dependencies, singleton)} :
        /\ container' = r.c
        /\ outcome' = [NoOutcome EXCEPT !.op = "register", !.name = name,
                                        !.status = r.status, !.about = r.about]
        /\ log' = IF r.status = "ok" THEN [log EXCEPT ![name] = NoLog] ELSE log
        /\ scope' = IF r.status = "ok" THEN [scope EXCEPT !.copied = @ \ {name}] ELSE scope
        /\ UNCHANGED nextSerial
        /\ UNCHANGED wdVars
        /\ UNCHANGED probe
        /\ UNCHANGED libVars

Get(name) ==
    /\ nextSerial <= MaxObjects
    /\ \A n \in ServiceNames : log[n].calls < MaxCalls
    /\ \E r \in {get(container, nextSerial, name, <<>>)} :
        /\ container' = r.c
        /\ nextSerial' = r.nextSerial
        /\ outcome' = [op |-> "get", name |-> name, status |-> r.status,
                       about |-> r.about, value |-> r.value, made |-> r.made,
                       events |-> r.events]
        /\ log' = [n \in ServiceNames |->
                     [calls |-> log[n].calls + Count(r.made, n),
                      got |-> IF n = name /\ r.status = "ok"
                              THEN log[n].got \cup {r.value[1]}
                              ELSE log[n].got]]
        /\ UNCHANGED scope
        /\ UNCHANGED wdVars
        /\ UNCHANGED probe
        /\ UNCHANGED libVars

Remove(name) ==
    /\ container' = remove(container, name)
    /\ outcome' = [NoOutcome EXCEPT !.op = "remove", !.name = name]
    /\ log' = [log EXCEPT ![name] = NoLog]
    /\ scope' = [scope EXCEPT !.copied = @ \ {name}]
    /\ UNCHANGED nextSerial
    /\ UNCHANGED wdVars
    /\ UNCHANGED probe
    /\ UNCHANGED libVars

GetTopologicalSort ==
    \E w \in {getTopologicalSort(container)} :
        /\ outcome' = [NoOutcome EXCEPT !.op = "getTopologicalSort",
                                        !.status = w.status, !.about = w.about,
                                        !.made = w.result]
        /\ UNCHANGED <<container, nextSerial, log, scope>>
        /\ UNCHANGED wdVars
        /\ UNCHANGED probe
        /\ UNCHANGED libVars

ContainerSpecInit ==
    /\ WorkdayInit(IdleScenarios)
    /\ probe = NoProbe
    /\ ContainerInit
    /\ LibInit

ContainerNext ==
    \/ \E name \in ServiceNames :
          \E service \in Registrable[name], dependencies \in DependencyLists[name],
             singleton \in SingletonChoices[name] :
                Register(name, service, dependencies, singleton)
    \/ \E name \in ServiceNames : Get(name)
    \/ \E name \in ServiceNames : Remove(name)
    \/ GetTopologicalSort

ContainerSpec == ContainerSpecInit /\ [][ContainerNext]_vars

-----------------------------------------------------------------------------
(* A container and the scope created from it: the same operations on both *)

\* what callers register in the parent and in the scope
ScopeRegistrations ==
    { <<"a", Function("fresh"), <<>>, TRUE>>,
      <<"c", Value(Literal(1)), <<>>, TRUE>>,
      <<"c", Function("fresh"), <<"a">>, FALSE>> }
ScopeNames == {r[1] : r \in ScopeRegistrations}

CreateScope ==
    /\ scope' = [made |-> TRUE, c |-> createScope(container),
                 got |-> [n \in ServiceNames |-> {}],
                 copied |-> DOMAIN container.services]
    /\ outcome' = [NoOutcome EXCEPT !.op = "createScope"]
    /\ UNCHANGED <<container, nextSerial, log>>
    /\ UNCHANGED wdVars
    /\ UNCHANGED probe
    /\ UNCHANGED libVars

ScopeRegister(name, service, dependencies, singleton) ==
    /\ scope.made
    /\ \E r \in {register(scope.c, name, service, dependencies, singleton)} :
        /\ scope' = IF r.status = "ok"
                    THEN [scope EXCEPT !.c = r.c, !.got[name] = {},
                                       !.copied = @ \ {name}]
                    ELSE scope
        /\ outcome' = [NoOutcome EXCEPT !.op = "scope.register", !.name = name,
                                        !.status = r.status, !.about = r.about]
    /\ UNCHANGED <<container, nextSerial, log>>
    /\ UNCHANGED wdVars
    /\ UNCHANGED probe
    /\ UNCHANGED libVars

ScopeGet(name) ==
    /\ scope.made
    /\ nextSerial <= MaxObjects
    /\ \E r \in {get(scope.c, nextSerial, name, <<>>)} :
        /\ scope' = [scope EXCEPT !.c = r.c,
                                  !.got[name] = IF r.status = "ok"
                                                THEN @ \cup {r.value[1]} ELSE @]
        /\ nextSerial' = r.nextSerial
        /\ outcome' = [op |-> "scope.get", name |-> name, status |-> r.status,
                       about |-> r.about, value |-> r.value, made |-> r.made,
                       events |-> r.events]
    /\ UNCHANGED <<container, log>>
    /\ UNCHANGED wdVars
    /\ UNCHANGED probe
    /\ UNCHANGED libVars

ScopeRemove(name) ==
    /\ scope.made
    /\ scope' = [scope EXCEPT !.c = remove(scope.c, name), !.got[name] = {},
                              !.copied = @ \ {name}]
    /\ outcome' = [NoOutcome EXCEPT !.op = "scope.remove", !.name = name]
    /\ UNCHANGED <<container, nextSerial, log>>
    /\ UNCHANGED wdVars
    /\ UNCHANGED probe
    /\ UNCHANGED libVars

ScopeNext ==
    \/ \E r \in ScopeRegistrations : Register(r[1], r[2], r[3], r[4])
    \/ \E name \in ScopeNames : Get(name)
    \/ \E name \in ScopeNames : Remove(name)
    \/ CreateScope
    \/ \E r \in ScopeRegistrations : ScopeRegister(r[1], r[2], r[3], r[4])
    \/ \E name \in ScopeNames : ScopeGet(name)
    \/ \E name \in ScopeNames : ScopeRemove(name)

ScopeSpec == ContainerSpecInit /\ [][ScopeNext]_vars

-----------------------------------------------------------------------------
(* The EventBus on its own: subscribers, emitters and the emit in progress *)

MaxSubscriptions == 3
MaxEmits == 2

\* what subscribers register: event, handler, options
BusSubscriptions ==
    { <<"e", Handler("plain"), Options(0, FALSE, NoFilter)>>,
      <<"e", Handler("plain"), Options(1, FALSE, NoFilter)>>,
      <<"e", Handler("plain"), Options(0, TRUE, NoFilter)>>,
      <<"e", Handler("emits"), Options(0, FALSE, NoFilter)>>,
      <<"e", Handler("throws"), Options(0, FALSE, FilterOn({1}))>>,
      <<"f", Handler("plain"), Options(0, FALSE, NoFilter)>>,
      <<"*", Handler("plain"), Options(0, TRUE, NoFilter)>> }
BusEvents == {"e", "f"}
BusPayloads == {1, 2}
SubscribedIds(b) ==
    {sub.id : sub \in UNION {Range(b.subscriptions[e]) : e \in DOMAIN b.subscriptions}
                        \cup Range(b.wildcardSubscriptions)}

\* a subscriber calls on(...) while no emit is in progress
On(event, handler, options) ==
    /\ ~bus.isEmitting
    /\ busLog.ids < MaxSubscriptions
    /\ bus' = on(bus, busLog.ids + 1, event, handler, options)
    /\ busLog' = [busLog EXCEPT !.ids = @ + 1]
    /\ UNCHANGED othersBus

\* a subscriber calls the function on(...) returned
Off(id) ==
    /\ ~bus.isEmitting
    /\ id \in SubscribedIds(bus)
    /\ bus' = off(bus, id)
    /\ UNCHANGED busLog
    /\ UNCHANGED othersBus

\* a caller outside the handlers calls emit, awaited or not
Emit(event, payload) ==
    /\ busLog.emits < MaxEmits
    /\ bus' = emit(bus, busLog.emits + 1, event, payload)
    /\ busLog' = [busLog EXCEPT
                    !.emits = @ + 1,
                    !.found = IF bus.isEmitting THEN @
                              ELSE MapSet(@, busLog.emits + 1,
                                          [payload |-> payload,
                                           subs |-> IF Has(bus.subscriptions, event)
                                                    THEN Range(bus.subscriptions[event])
                                                    ELSE {}])]
    /\ UNCHANGED othersBus

\* the emit in progress resumes after an await
EmitStep ==
    /\ bus.cur.pc # "idle"
    /\ \E st \in {[b |-> bus, log |-> busLog]} :
       \E next \in {IF bus.cur.pc = "subs" THEN NextSubscription(st)
                    ELSE IF bus.cur.pc = "wild" THEN NextWildcard(st)
                    ELSE NextQueued(st)} :
            /\ bus' = next.b
            /\ busLog' = next.log
    /\ UNCHANGED othersBus

BusSpecInit ==
    /\ WorkdayInit(IdleScenarios)
    /\ probe = NoProbe
    /\ ContainerInit
    /\ LibInit

BusNext ==
    \/ \E t \in BusSubscriptions : On(t[1], t[2], t[3])
    \/ \E id \in 1..MaxSubscriptions : Off(id)
    \/ \E event \in BusEvents, payload \in BusPayloads : Emit(event, payload)
    \/ EmitStep

BusSpec == BusSpecInit /\ [][BusNext]_vars

\* the event loop resumes an emit that awaits
BusFairSpec == BusSpec /\ WF_vars(EmitStep)

-----------------------------------------------------------------------------
(* The error handler on its own: calls of retry and executeWithCircuitBreaker
   that overlap, operations that resolve or reject, a clock *)

\* the configuration the breaker of 'api' is created with
BreakerConfig == [failureThreshold |-> 2, recoveryTimeout |-> 1, halfOpenMaxCalls |-> 1]

\* the calls of retry: operation name, maxAttempts, the configuration it is
\* based on ('db' has no breaker)
RetryRequests ==
    {<<"api", maxAttempts, "default">> : maxAttempts \in 0..MaxAttempts}
        \cup {<<"db", MaxAttempts, "network">>}

Free(t) == eh.task[t].pc \in {"idle", "done"} /\ eh.calls < MaxExecutions

Tick ==
    /\ eh.now < MaxTime
    /\ eh' = [eh EXCEPT !.now = @ + 1]
    /\ UNCHANGED othersEh

ExecuteWithCircuitBreaker(t, operationName, config) ==
    /\ Free(t)
    /\ \E b \in {IF Has(eh.circuitBreakers, operationName)
                  THEN eh.circuitBreakers[operationName]
                  ELSE NewCircuitBreaker(config)} :
       \E a \in {Admit(b, eh.now)} :
        eh' = [eh EXCEPT
                 !.circuitBreakers = MapSet(@, operationName, a.breaker),
                 !.calls = @ + 1,
                 !.halfOpenAdmitted =
                     HalfOpenCarried(@, b, a.breaker)
                       + IF a.breaker.state = "HALF_OPEN" /\ a.verdict = "run"
                         THEN 1 ELSE 0,
                 !.task[t] = IF a.verdict = "run"
                             THEN [NoCall EXCEPT !.kind = "execute", !.pc = "operation",
                                                 !.name = operationName]
                             ELSE [NoCall EXCEPT !.kind = "execute", !.pc = "done",
                                                 !.name = operationName,
                                                 !.result = "thrown", !.error = a.verdict]]
    /\ UNCHANGED othersEh

\* the operation of an execute call settles: recordSuccess or recordFailure
ExecuteSettles(t, settled) ==
    /\ eh.task[t].kind = "execute" /\ eh.task[t].pc = "operation"
    /\ eh' = [eh EXCEPT
                !.circuitBreakers[eh.task[t].name] =
                    IF settled = "ok" THEN recordSuccess(@) ELSE recordFailure(@, eh.now),
                !.streak = IF settled = "ok" THEN 0 ELSE @ + 1,
                !.halfOpenAdmitted =
                    HalfOpenCarried(@, eh.circuitBreakers[eh.task[t].name],
                                    IF settled = "ok"
                                    THEN recordSuccess(eh.circuitBreakers[eh.task[t].name])
                                    ELSE recordFailure(eh.circuitBreakers[eh.task[t].name],
                                                       eh.now)),
                !.task[t] = [@ EXCEPT !.pc = "done", !.hist = Append(@, settled),
                                      !.result = IF settled = "ok" THEN "returned" ELSE "thrown",
                                      !.error = IF settled = "ok" THEN "" ELSE settled]]
    /\ UNCHANGED othersEh

Retry(t, operationName, config) ==
    /\ Free(t)
    /\ eh' = [eh EXCEPT
                !.calls = @ + 1,
                !.task[t] = IF 1 <= config.maxAttempts
                            THEN [NoCall EXCEPT !.kind = "retry", !.pc = "operation",
                                                !.name = operationName, !.config = config,
                                                !.attempt = 1]
                            ELSE [NoCall EXCEPT !.kind = "retry", !.pc = "done",
                                                !.name = operationName, !.config = config,
                                                !.result = "thrown", !.error = "undefined"]]
    /\ UNCHANGED othersEh

\* the operation of a retry call settles
RetrySettles(t, settled) ==
    /\ eh.task[t].kind = "retry" /\ eh.task[t].pc = "operation"
    /\ \E call \in {eh.task[t]} :
        eh' = IF settled = "ok"
              THEN [eh EXCEPT
                      !.circuitBreakers =
                          IF Has(@, call.name)
                          THEN MapSet(@, call.name, recordSuccess(@[call.name]))
                          ELSE @,
                      !.halfOpenAdmitted = IF Has(eh.circuitBreakers, call.name) THEN 0 ELSE @,
                      !.task[t] = [@ EXCEPT !.pc = "done", !.hist = Append(@, settled),
                                            !.result = "returned"]]
              ELSE IF Rethrows(call.config, settled, call.attempt)
              THEN [eh EXCEPT
                      !.task[t] = [@ EXCEPT !.pc = "done", !.hist = Append(@, settled),
                                            !.result = "thrown", !.error = settled]]
              ELSE [eh EXCEPT
                      !.task[t] = [@ EXCEPT !.pc = "sleep", !.hist = Append(@, settled),
                                            !.sleeps = @ + 1,
                                            !.wake = eh.now + calculateDelay(call.attempt, call.config)]]
    /\ UNCHANGED othersEh

\* the timer of sleep fires: the counter, then the next attempt if the loop
\* allows one, else the throw behind the loop
RetryWakes(t) ==
    /\ eh.task[t].kind = "retry" /\ eh.task[t].pc = "sleep"
    /\ eh.now >= eh.task[t].wake
    /\ eh' = [eh EXCEPT
                !.retry_attempts_total = @ + 1,
                !.task[t] = IF @.attempt + 1 <= @.config.maxAttempts
                            THEN [@ EXCEPT !.pc = "operation", !.attempt = @ + 1, !.wake = 0]
                            ELSE [@ EXCEPT !.pc = "done", !.attempt = @ + 1, !.wake = 0,
                                           !.result = "thrown",
                                           !.error = @.hist[Len(@.hist)]]]
    /\ UNCHANGED othersEh

EhSpecInit ==
    /\ WorkdayInit(IdleScenarios)
    /\ probe = NoProbe
    /\ ContainerInit
    /\ LibInit

EhNext ==
    \/ Tick
    \/ \E t \in Tasks : ExecuteWithCircuitBreaker(t, "api", BreakerConfig)
    \/ \E t \in Tasks, settled \in {"ok", "NetworkError"} : ExecuteSettles(t, settled)
    \/ \E t \in Tasks, r \in RetryRequests : Retry(t, r[1], getRetryConfig(r[2], r[3]))
    \/ \E t \in Tasks, settled \in {"ok"} \cup Errors : RetrySettles(t, settled)
    \/ \E t \in Tasks : RetryWakes(t)

EhSpec == EhSpecInit /\ [][EhNext]_vars

-----------------------------------------------------------------------------
(* The cache on its own: sets and gets of a few keys, a clock *)

MaxSize == 2
MaxCacheOps == 4
MaxClock == 2
CacheKeys == {"a", "b", "c"}
\* every set asks for maxSize = MaxSize, or for no limit; entries live forever
\* or for one unit of the clock
CacheOptions ==
    {[ttl |-> ttl, maxSize |-> maxSize, strategy |-> "lru"] :
        ttl \in {0, 1}, maxSize \in {0, MaxSize}}

CacheTick ==
    /\ cache.now < MaxClock
    /\ cache' = [cache EXCEPT !.now = @ + 1]
    /\ UNCHANGED othersCache

CacheSet(key, value, options) ==
    /\ cache.ops < MaxCacheOps
    /\ cache' = cacheSet(cache, key, value, options)
    /\ UNCHANGED othersCache

CacheGet(key) ==
    /\ cache.ops < MaxCacheOps
    /\ cache' = cacheGet(cache, key)
    /\ UNCHANGED othersCache

CacheNext ==
    \/ CacheTick
    \/ \E key \in CacheKeys, options \in CacheOptions : CacheSet(key, 1, options)
    \/ \E key \in CacheKeys : CacheGet(key)

\* starts as EhSpec does: everything freshly constructed
CacheSpec == EhSpecInit /\ [][CacheNext]_vars

-----------------------------------------------------------------------------
(* The AI manager on its own: requests, API calls that settle, a clock *)

MaxAiRequests == 4
MaxAiTime == 3
\* the random part of a request id: two draws may coincide
RandomParts == {1, 2}
Prompts == {<<"p">>, <<"q">>}

AiTick ==
    /\ ai.now < MaxAiTime
    /\ ai' = [ai EXCEPT !.now = @ + 1]
    /\ UNCHANGED othersAi

GenerateResponse(prompt, random) ==
    /\ Len(ai.passed) < MaxAiRequests
    /\ ai' = generateResponse(ai, generateRequestId(ai.now, random), prompt)
    /\ UNCHANGED othersAi

\* errorHandler.retry around callAIAPI settles: the response is cached, or the
\* error is handled and rethrown
ApiSettles(cacheKey, ok) ==
    /\ cacheKey \in ai.pending
    /\ ai' = [ai EXCEPT !.pending = @ \ {cacheKey},
                        !.requestCache = IF ok THEN @ \cup {cacheKey} ELSE @,
                        !.ended = IF ok THEN "generated" ELSE "failed"]
    /\ UNCHANGED othersAi

AiNext ==
    \/ AiTick
    \/ \E prompt \in Prompts, random \in RandomParts : GenerateResponse(prompt, random)
    \/ \E prompt \in Prompts, ok \in BOOLEAN : ApiSettles(generateCacheKey(prompt), ok)

AiSpec == EhSpecInit /\ [][AiNext]_vars

-----------------------------------------------------------------------------
(* Properties *)

InFlight == {i \in Callbacks : cb[i].pc # "idle"}
Sentinels == {"Resume", "Skills", "Work Experience"}
EntriesNext(stage) == EntriesIn(fieldObjs', wrkDayFields', stage)

\* C1: at most one pass is in progress at any time, the flag is down exactly
\* while one is, and a batch delivered while a pass is in progress starts no
\* pass and invokes no handler (nothing of the orchestrator or the document
\* changes).
C1_AtMostOne ==
    /\ Cardinality(InFlight) <= 1
    /\ curInstanceCompleted <=> InFlight = {}
C1_SinglePass ==
    /\ []C1_AtMostOne
    /\ [][(ObserverCallback /\ ~curInstanceCompleted)
            => UNCHANGED <<cb, curInstanceCompleted, retryCount, fieldObjs, dom, pass>>]_vars
\* a batch has just been dropped in the middle of a pass
C1_Witness == last = "busy" /\ ~curInstanceCompleted /\ pass.attempts > 0

\* C2: a pass in which every attempt ended in a thrown error made exactly
\* maxRetries attempts and then gave the stage up: the callback has returned
\* (no callback is left suspended or failed), the flag is up again and the
\* entries that threw are still in the map. No pass makes more attempts.
C2_RetryBound ==
    /\ pass.attempts <= maxRetries
    /\ (curInstanceCompleted /\ pass.attempts > 0 /\ pass.failed = pass.attempts)
          => /\ pass.attempts = maxRetries
             /\ InFlight = {}
             /\ Entries(pass.stage) # <<>>
C2_Witness ==
    /\ curInstanceCompleted
    /\ pass.failed = maxRetries
    /\ pass.attempts = maxRetries
    /\ Entries(pass.stage) # <<>>

\* C3: under FairSpec (every sleep returns, every handler returns or throws)
\* a pass that has started ends with the flag up again.
C3_PassEnds == (~curInstanceCompleted) ~> curInstanceCompleted
\* a pass has just ended after at least one failed attempt
C3_Witness ==
    /\ curInstanceCompleted
    /\ pass.attempts > 0
    /\ pass.failed > 0
    /\ \A i \in Callbacks : cb[i].pc = "idle"

\* C4: a stage whose entries have all been removed stays without entries, and
\* a pass over it changes no element, types no skill, clicks no option and
\* invokes no handler.
C4_Idempotent ==
    [][\A s \in Stages :
          EntriesIn(fieldObjs, wrkDayFields, s) = <<>>
            => /\ EntriesNext(s) = <<>>
               /\ (\E i \in InFlight : cb[i].curStage = s)
                     => /\ dom'.els = dom.els
                        /\ dom'.typed = dom.typed
                        /\ dom'.picked = dom.picked
                        /\ pass'.invoked = {}]_vars
\* a second pass over a stage that an earlier pass emptied has just ended
C4_Witness ==
    /\ curInstanceCompleted
    /\ last = "step"
    /\ pass.stage \in Stages
    /\ pass.left = 0
    /\ pass.attempts = 1

\* what the plain-input handler's format checks accept
Accepts(el, v) ==
    /\ el.type = "email" => Includes(v, S_at)
    /\ el.type = "tel" => TelOk(v)

\* a pass over all the configured entries of the page's stage has just ended,
\* no handler threw and the page did not change meanwhile
CleanPassDone ==
    /\ curInstanceCompleted
    /\ pass.attempts > 0
    /\ pass.stage \in Stages
    /\ pass.failed = 0
    /\ ~pass.moved
    /\ page = pass.stage
    /\ pass.left = Len(FieldMap[pass.stage])

FirstInput(e) == workdayQuery(dom.els, page, e.key, "input")

\* C5 as stated: in the end-to-end scenario (profile First Name = "Ada", an
\* input with aria-label "First Name", stage Personal Info) the input holds
\* "Ada" and the stage's map is empty after the pass; and after any pass in
\* which no handler throws every field with a profile value and a matched
\* input holds that value.
C5_Original ==
    CleanPassDone =>
      /\ Entries(pass.stage) = <<>>
      /\ (pass.stage = PI /\ res["First Name"] = S_Ada)
            => \A k \in DOMAIN dom.els :
                  (dom.els[k].tag = "input" /\ dom.els[k].aria = Some(S_First_Name))
                     => dom.els[k].value = S_Ada
      /\ \A k \in DOMAIN FieldMap[pass.stage] :
            LET e == FieldMap[pass.stage][k] IN
            (res[e.param] # <<>> /\ FirstInput(e) # 0)
               => dom.els[FirstInput(e)].value = res[e.param]

\* C5 as amended: the key is matched as a substring of the lowercased
\* attribute, so the scenario needs an input whose attribute contains
\* "firstname"; after a pass over all entries of the stage in which no
\* handler threw and the page did not change, the map of the stage is empty,
\* and every plain field with a profile value whose first matching input is
\* visible, enabled, accepts the value's format and is written by no later
\* entry holds that value.
C5_EndToEnd ==
    CleanPassDone =>
      /\ Entries(pass.stage) = <<>>
      /\ \A k \in DOMAIN FieldMap[pass.stage] :
            LET e == FieldMap[pass.stage][k]
                el == FirstInput(e)
            IN (/\ e.param \notin Sentinels
                /\ e.param # "Discipline"
                /\ e.key \notin DateKeys
                /\ res[e.param] # <<>>
                /\ el # 0
                /\ dom.els[el].visible
                /\ ~dom.els[el].disabled
                /\ Accepts(dom.els[el], res[e.param])
                /\ \A k2 \in DOMAIN FieldMap[pass.stage] :
                      k2 > k => FirstInput(FieldMap[pass.stage][k2]) # el
                /\ \A b \in DOMAIN BlockKeys :
                      ~QueryAllMatches(dom.els[el], ToLowerCase(BlockKeys[b])))
               => dom.els[el].value = res[e.param]
\* the scenario with data-automation-id "firstName": the input holds "Ada"
C5_Witness ==
    /\ CleanPassDone
    /\ pass.stage = PI
    /\ \E k \in DOMAIN dom.els :
          /\ dom.els[k].aid = Some(S_firstName)
          /\ dom.els[k].tag = "input"
          /\ dom.els[k].value = S_Ada

\* C6: a batch for which the detector returns null, or a stage that is no
\* key of wrkDayFields, changes nothing: flag, counter, sub-maps, callbacks
\* and document stay as they are, and no handler is invoked.
C6_SkipFrame ==
    [][(/\ ObserverCallback
        /\ \/ CurStage(page) = NoStage
           \/ CurStage(page) \notin DOMAIN wrkDayFields)
          => UNCHANGED <<curInstanceCompleted, retryCount, fieldObjs, wrkDayFields,
                         cb, dom, pass>>]_vars
\* a batch has just been skipped on a page whose stage the map does not know
C6_Witness == last = "unknown" /\ page = "Review" /\ curInstanceCompleted

\* C7 as stated: whenever a pass is entered, the stage holds all of its
\* configured entries.
C7_Original ==
    \A i \in Callbacks :
        cb[i].pc = "settle" => Entries(cb[i].curStage) = FieldMap[cb[i].curStage]

\* every entry of a is an entry of b, and a is no longer than b
Within(a, b) ==
    /\ Len(a) <= Len(b)
    /\ \A k \in DOMAIN a : \E j \in DOMAIN b : a[k] = b[j]

\* C7 as amended: the working map is built once, when the orchestrator
\* starts; entering a stage never restores entries, so a stage entered again
\* holds only the entries that earlier passes left.
C7_NeverRestored ==
    [][\A s \in Stages : Within(EntriesNext(s), EntriesIn(fieldObjs, wrkDayFields, s))]_vars
\* a stage is entered again with fewer entries than configured
C7_Witness ==
    \E i \in Callbacks :
        /\ cb[i].pc = "settle"
        /\ Len(Entries(cb[i].curStage)) < Len(FieldMap[cb[i].curStage])

\* C8: retryCount stays within 0..maxRetries and is 0 whenever no pass is in
\* progress.
C8_RetryCount ==
    /\ retryCount \in 0..maxRetries
    /\ curInstanceCompleted => retryCount = 0
\* a pass that failed and then succeeded has ended, and the counter is 0
C8_Witness ==
    /\ curInstanceCompleted
    /\ pass.failed > 0
    /\ pass.failed < pass.attempts
    /\ retryCount = 0

\* C9: a pass starts only in the step that delivers a batch (nothing is
\* queued while a pass runs), and a batch delivered when no pass is in
\* progress and the detected stage is configured starts a pass over the
\* entries the stage still has.
PassStarts == \E i \in Callbacks : cb[i].pc # "settle" /\ cb'[i].pc = "settle"
C9_NoQueue ==
    [][/\ PassStarts => ObserverCallback
       /\ (ObserverCallback /\ curInstanceCompleted /\ page \in Stages)
             => /\ \E i \in Callbacks : cb'[i] = [pc |-> "settle", curStage |-> page]
                /\ EntriesNext(page) = Entries(page)
                /\ pass'.left = Len(Entries(page))]_vars
\* a new batch has started a pass over what an abandoned pass left
C9_Witness ==
    /\ last = "start"
    /\ pass.left > 0
    /\ pass.left < Len(FieldMap[pass.stage])

\* the target of an entry is not on the page
TargetAbsent(e) ==
    IF e.param = "Skills" THEN dom.skillsBox = "absent"
    ELSE IF e.param = "Work Experience"
         THEN workdayQuery(dom.els, page, e.key, "button") = 0
    ELSE IF e.param = "Resume"
         THEN workdayQuery(dom.els, page, e.key, "input") = 0
    ELSE \A t \in {"input", "textarea", "select", "button"} :
            workdayQuery(dom.els, page, e.key, t) = 0

\* C10 as stated: handling an entry whose target is absent drops the entry,
\* throws nothing and uses up no retry.
C10_NotFoundNotFatal ==
    [][\A i \in Callbacks :
          (ProcessField(i) /\ TargetAbsent(Head(Entries(cb[i].curStage))))
             => /\ pass'.failed = pass.failed
                /\ Len(EntriesNext(cb[i].curStage)) < Len(Entries(cb[i].curStage))]_vars

\* the format checks of the plain-input handler reject the value
Rejects(el, v) ==
    \/ el.type = "email" /\ ~Includes(v, S_at)
    \/ el.type = "tel" /\ ~TelOk(v)

\* the entry is a plain field with a profile value, and the input it matches
\* is visible and enabled and rejects the value
RejectedEntry(e) ==
    /\ e.param \notin Sentinels
    /\ e.param # "Discipline"
    /\ e.key \notin DateKeys
    /\ res[e.param] # <<>>
    /\ FirstInput(e) # 0
    /\ dom.els[FirstInput(e)].visible
    /\ ~dom.els[FirstInput(e)].disabled
    /\ Rejects(dom.els[FirstInput(e)], res[e.param])

\* C11 as stated: when the plain-input handler rejects the value of an entry
\* for its format, handling the entry writes the value to no element, removes
\* the entry and uses up no retry.
C11_ValueRejected ==
    [][\A i \in Callbacks :
          (ProcessField(i) /\ RejectedEntry(Head(Entries(cb[i].curStage))))
             => /\ \A k \in DOMAIN dom'.els :
                      dom'.els[k].value = res[Head(Entries(cb[i].curStage)).param]
                         => /\ k \in DOMAIN dom.els
                            /\ dom.els[k].value = dom'.els[k].value
                /\ pass'.failed = pass.failed
                /\ Len(EntriesNext(cb[i].curStage)) < Len(Entries(cb[i].curStage))]_vars

\* the values of an element's candidate attributes: the id and name
\* properties (the empty string without the attribute) and the attributes
\* that are present
CandidateValues(el) ==
    {el.id, el.name}
    \cup {o[1] : o \in {el.aid, el.alabel, el.aria, el.placeholder, el.title} \ {None}}

\* one candidate attribute, lowercased and trimmed, contains the lowercased
\* key and neither exclusion token
Matches(el, key) ==
    \E a \in CandidateValues(el) :
        /\ Includes(Trim(ToLowerCase(a)), ToLowerCase(key))
        /\ ~Includes(Trim(ToLowerCase(a)), S_phonecode)
        /\ ~Includes(Trim(ToLowerCase(a)), S_countrycode)

MatchingEls(form, key, type) ==
    {k \in DOMAIN form : form[k].tag = type /\ Matches(form[k], key)}

\* C12: workdayQuery returns an element of the given tag that matches, and
\* returns none exactly when no element of that tag matches; key "email"
\* matches aria-label "Email Address", key "code" does not match an element
\* whose only attribute is name "phoneCode".
C12_Matcher ==
    (probe.fn = "workdayQuery" /\ probe.done) =>
        /\ probe.one = 0 <=> MatchingEls(probe.form, probe.jobParam, probe.type) = {}
        /\ probe.one # 0 => probe.one \in MatchingEls(probe.form, probe.jobParam, probe.type)
        /\ (probe.form = <<ElAriaEmail>> /\ probe.jobParam = S_email /\ probe.type = "input")
              => probe.one = 1
        /\ (probe.form = <<ElPhoneCode>> /\ probe.jobParam = S_code /\ probe.type = "input")
              => probe.one = 0
\* key "code" was looked up in a form with a phoneCode element and one more
\* element, and the excluded element was passed over
C12_Witness ==
    /\ probe.fn = "workdayQuery"
    /\ probe.done
    /\ probe.jobParam = S_code
    /\ probe.form = <<ElPhoneCode, ElPhoneCodePlus>>
    /\ probe.one = 2

\* C13 as stated: for every key, the empty string included, workdayQuery
\* returns the first element of workdayQueryAll's list, and none exactly when
\* the list is empty.
C13_SingularIsFirstOfPlural ==
    (probe.fn = "workdayQuery" /\ probe.done) =>
        probe.one = (IF probe.all = <<>> THEN 0 ELSE Head(probe.all))

\* ---- C14 ----
\* the document of a finished detector call that took the fallback path
FallbackDoc == probe.fn = "getCurStageWorkday" /\ probe.done
               /\ probe.form # None /\ probe.form[1].progressBar = None
NamesIn(text) == {i \in DOMAIN stageIndicators : Includes(text, stageIndicators[i])}
NamedHeadings(doc) == {h \in DOMAIN doc.headings : NamesIn(Trim(doc.headings[h])) # {}}
Least(S) == CHOOSE x \in S : \A y \in S : x <= y
WorkExperienceIdx == CHOOSE i \in DOMAIN stageIndicators : stageIndicators[i] = S_Work_Experience

\* C14 as stated: for every document with no progress-bar element and a
\* heading containing "Work Experience", the detector returns "Work Experience".
C14_Original ==
    (FallbackDoc /\ \E h \in DOMAIN probe.form[1].headings :
                        Includes(Trim(probe.form[1].headings[h]), S_Work_Experience))
        => probe.out = Some(S_Work_Experience)

\* C14 (amended): with no progress-bar element the detector returns the first
\* vocabulary name, in vocabulary order, contained in the first heading, in
\* document order, that contains any vocabulary name; that is "Work Experience"
\* when this heading contains it and none of the names listed before it.  The
\* text of the whole body decides only when no heading contains a vocabulary
\* name: then the first vocabulary name the body contains is returned, null
\* when there is none.
C14_FirstHeadingFirstName ==
    FallbackDoc =>
        LET doc == probe.form[1]
            hs == NamedHeadings(doc)
        IN  IF hs # {}
            THEN LET names == NamesIn(Trim(doc.headings[Least(hs)]))
                 IN  /\ probe.out = Some(stageIndicators[Least(names)])
                     /\ (WorkExperienceIdx \in names
                            /\ \A i \in names : i >= WorkExperienceIdx)
                         => probe.out = Some(S_Work_Experience)
            ELSE LET names == NamesIn(BodyText(doc))
                 IN  probe.out = IF names = {} THEN None
                                 ELSE Some(stageIndicators[Least(names)])

\* a page whose second heading is the first to name a stage
C14_Witness ==
    /\ FallbackDoc
    /\ probe.form[1].headings = <<S_Welcome, S_Work_Experience_padded>>
    /\ probe.form[1].text = S_Skills_and_Education
    /\ probe.out = Some(S_Work_Experience)

\* ---- C15 ----
\* the stored experiences, and the values entry e puts into a sub-field set,
\* in the order of BlockKeys
Experiences == IF store.details = None THEN <<>> ELSE store.details[1].experiences
WellFormed(e) == Len(Split(e.jobDuration, "-")) >= 2
ExpectedValues(e) ==
    LET parts == Split(e.jobDuration, "-")
        from == Split(Trim(parts[1]), " ")
        to == Split(Trim(parts[2]), " ")
    IN  << e.jobTitle, e.jobEmployer, BoolStr(e.isCurrentEmployer), e.roleBulletsString,
           OptStr(monthToNumber(from[1])), OptStr(At(from, 1)),
           OptStr(monthToNumber(to[1])), OptStr(At(to, 1)) >>
\* the value of sub-field k of the j-th sub-field set (0-based) in document
\* order; the sets are the last elements of the document
SetValue(j, k) ==
    dom.els[Len(dom.els) - Len(BlockKeys) * dom.nblocks + Len(BlockKeys) * j + k].value
Untouched(j, k) == SetValue(j, k) = <<>>
DescriptionKey == CHOOSE k \in DOMAIN BlockKeys : BlockKeys[k] = S_roleDescription

\* C15: on a page that appends one sub-field set per click, entry i's values
\* are written to the i-th sub-field set in document order and to no other:
\* a sub-field of set j holds nothing but the value of entry j (the three
\* values written before jobDuration is parsed, for an entry whose duration
\* has no "-"), a set beyond the entries stays empty, and once the last value
\* of entry i (its description) is written the i-th set holds all its values.
C15_Positional ==
    \A j \in 0..(dom.nblocks - 1) :
        IF j < Len(Experiences)
        THEN LET e == Experiences[j + 1] IN
             IF WellFormed(e)
             THEN /\ \A k \in DOMAIN BlockKeys :
                        Untouched(j, k) \/ SetValue(j, k) = ExpectedValues(e)[k]
                  /\ ~Untouched(j, DescriptionKey) =>
                        \A k \in DOMAIN BlockKeys : SetValue(j, k) = ExpectedValues(e)[k]
             ELSE /\ SetValue(j, 1) \in {<<>>, e.jobTitle}
                  /\ SetValue(j, 2) \in {<<>>, e.jobEmployer}
                  /\ SetValue(j, 3) \in {<<>>, BoolStr(e.isCurrentEmployer)}
                  /\ \A k \in 4..Len(BlockKeys) : Untouched(j, k)
        ELSE \A k \in DOMAIN BlockKeys : Untouched(j, k)

\* two entries, each in its own set
C15_Witness ==
    /\ Len(Experiences) = 2
    /\ dom.nblocks = 2
    /\ SetValue(0, 1) = S_Engineer /\ ~Untouched(0, DescriptionKey)
    /\ SetValue(1, 1) = S_Clerk /\ ~Untouched(1, DescriptionKey)

C17_ConfigStatic ==
    \A s \in Stages : fieldObjs[ConfigRefs[s]] = FieldMap[s]

\* ---- C18 ----
\* a call of get for a service that is being resolved further up the stack
ReachesInProgress(ev) == ev.name \in Range(ev.stack)
\* the services that resolving `name` depends on, directly or not
Dependencies(c, n) == IF Has(c.services, n) THEN Range(c.services[n].dependencies) ELSE {}
RECURSIVE Closure(_, _)
Closure(c, S) ==
    LET T == S \cup UNION {Dependencies(c, n) : n \in S}
    IN  IF T = S THEN S ELSE Closure(c, T)
ReachableFrom(c, n) == Closure(c, Dependencies(c, n))
OnCycle(c, n) == n \in ReachableFrom(c, n)
CycleAhead(c, name) == \E n \in {name} \cup ReachableFrom(c, name) : OnCycle(c, n)
\* nothing but a cycle can stop the resolution of `name`: nothing is cached,
\* every service it needs is registered and none of the functions throws
PlainGraph(c, name) ==
    /\ c.instances = EmptyMap
    /\ \A n \in {name} \cup ReachableFrom(c, name) :
          /\ Has(c.services, n)
          /\ c.services[n].instance.body # "throws"

\* C18: get throws 'Circular dependency detected' whenever the resolution
\* reaches a service that is being resolved (and only then), for cycles of
\* every length, and it terminates: the error ends the resolution at once, no
\* service is ever entered twice on one stack, so the nesting never exceeds
\* the number of registered services, and the set of services being resolved
\* is empty again when get has returned or thrown.
C18_CircularDetected ==
    [][\A name \in ServiceNames : Get(name) =>
          LET evs == outcome'.events IN
          /\ evs # <<>> /\ evs[1] = [name |-> name, stack |-> <<>>]
          /\ \A k \in DOMAIN evs :
                ReachesInProgress(evs[k]) =>
                    /\ k = Len(evs)
                    /\ outcome'.status = "circular dependency"
                    /\ outcome'.about = evs[k].name
          /\ outcome'.status = "circular dependency" => ReachesInProgress(evs[Len(evs)])
          /\ \A k \in DOMAIN evs :
                /\ Cardinality(Range(evs[k].stack)) = Len(evs[k].stack)
                /\ Len(evs[k].stack) <= Cardinality(DOMAIN container.services)
          /\ container'.circularDependencyCheck = {}
          /\ PlainGraph(container, name) =>
                (outcome'.status = "circular dependency" <=> CycleAhead(container, name))
      ]_vars

\* a cycle of length three was detected: a needs b, b needs c, c needs a
C18_Witness ==
    /\ outcome.op = "get" /\ outcome.status = "circular dependency"
    /\ Len(outcome.events) = 4
    /\ outcome.events[4] = [name |-> "a", stack |-> <<"a", "b", "c">>]

\* ---- C19 ----
WithFactory(c, n) == Has(c.services, n) /\ c.services[n].factory # None
SingletonFactory(c, n) == WithFactory(c, n) /\ c.services[n].singleton
TransientFactory(c, n) == WithFactory(c, n) /\ ~c.services[n].singleton

\* C19 as stated: a singleton's factory is invoked at most once over any
\* sequence of gets and every get returns the same instance; every get of a
\* non-singleton that returns has invoked the factory again and returns an
\* instance distinct from all earlier ones.
C19_Original ==
    [][/\ \A n \in ServiceNames :
             SingletonFactory(container', n) =>
                 log'[n].calls <= 1 /\ Cardinality(log'[n].got) <= 1
       /\ \A name \in ServiceNames :
             (Get(name) /\ TransientFactory(container, name) /\ outcome'.status = "ok") =>
                 /\ Count(outcome'.made, name) = 1
                 /\ outcome'.value[1] \notin log[name].got
      ]_vars

\* C19 (amended): for a singleton registered with a factory every get that
\* returns yields the same instance, the cached one, and once an invocation of
\* the factory has returned (the instance is cached) no get invokes it again;
\* an invocation that throws caches nothing, so the next get invokes the
\* factory again.  Every get of a non-singleton that returns has invoked the
\* factory once more and returns the object that call built, which no earlier
\* get returned.
C19_SingletonOnce ==
    [][/\ \A n \in ServiceNames :
             SingletonFactory(container', n) =>
                 /\ Cardinality(log'[n].got) <= 1
                 /\ log'[n].got # {} =>
                       /\ Has(container'.instances, n)
                       /\ log'[n].got = {container'.instances[n]}
       /\ \A name \in ServiceNames : Get(name) =>
             /\ \A n \in ServiceNames :
                   (SingletonFactory(container, n) /\ Has(container.instances, n)) =>
                       /\ Count(outcome'.made, n) = 0
                       /\ container'.instances[n] = container.instances[n]
             /\ (SingletonFactory(container, name) /\ ~Has(container.instances, name)
                     /\ outcome'.status = "ok") =>
                       /\ Count(outcome'.made, name) = 1
                       /\ container'.instances[name] = outcome'.value[1]
             /\ (TransientFactory(container, name) /\ outcome'.status = "ok") =>
                       /\ Count(outcome'.made, name) = 1
                       /\ outcome'.value[1].maker = name
                       /\ outcome'.value[1].serial >= nextSerial
                       /\ outcome'.value[1] \notin log[name].got
      ]_vars

\* a get of a singleton returned the cached instance without a factory call
C19_Witness ==
    /\ outcome.op = "get" /\ outcome.status = "ok" /\ outcome.made = <<>>
    /\ SingletonFactory(container, outcome.name)
    /\ log[outcome.name].calls = 1
    /\ log[outcome.name].got = {outcome.value[1]}

\* ---- C20 ----
\* C20: register throws "Service '<name>' is already registered" exactly for a
\* name that is registered, and then leaves the definition and the cached
\* instance of that name (the whole container) as they were.
C20_DuplicateRegister ==
    [][\A name \in ServiceNames :
          \A service \in Registrable[name], dependencies \in DependencyLists[name],
             singleton \in SingletonChoices[name] :
                Register(name, service, dependencies, singleton) =>
                    IF Has(container.services, name)
                    THEN /\ outcome'.status = "already registered"
                         /\ outcome'.about = name
                         /\ container'.services[name] = container.services[name]
                         /\ Has(container.instances, name) =>
                               /\ Has(container'.instances, name)
                               /\ container'.instances[name] = container.instances[name]
                         /\ container' = container
                    ELSE /\ outcome'.status = "ok"
                         /\ Has(container'.services, name)
                         /\ container'.services[name].dependencies = dependencies
                         /\ container'.services[name].singleton = singleton
      ]_vars

\* a second register of a name whose instance is cached was refused
C20_Witness ==
    /\ outcome.op = "register" /\ outcome.status = "already registered"
    /\ Has(container.instances, outcome.name)

\* ---- C21 ----
NoDuplicates(seq) == Cardinality(Range(seq)) = Len(seq)
Before(seq, x, i) == \E j \in 1..(i - 1) : seq[j] = x
HasCycle(c) == \E n \in DOMAIN c.services : OnCycle(c, n)

\* C21: getTopologicalSort returns a list that contains exactly the registered
\* service names, each once, every service after all of its dependencies, and
\* it throws 'Circular dependency detected' iff the dependency graph has a
\* cycle.
C21_TopologicalSort ==
    outcome.op = "getTopologicalSort" =>
        /\ outcome.status = "circular dependency" <=> HasCycle(container)
        /\ outcome.status = "ok" =>
              /\ Range(outcome.made) = DOMAIN container.services
              /\ NoDuplicates(outcome.made)
              /\ \A i \in DOMAIN outcome.made :
                    \A d \in Dependencies(container, outcome.made[i]) :
                        Before(outcome.made, d, i)

\* ---- C22 ----
\* C22: createScope returns a container with the parent's service names and
\* no instance; for every service the scope was created with, the object get
\* returns on the scope is not an object get returns on the parent; and
\* register, remove and get on one container leave the other as it is.
C22_ScopeIsolated ==
    [][/\ CreateScope =>
             /\ DOMAIN scope'.c.services = DOMAIN container.services
             /\ scope'.c.instances = EmptyMap
       /\ \A n \in scope'.copied : scope'.got[n] \cap log'[n].got = {}
       /\ scope'.c # scope.c => container' = container
       /\ (container' # container /\ ~CreateScope) => scope'.c = scope.c
      ]_vars

\* ---- C23 ----
\* the emit calls there can be: those of outside callers and of handlers
EmitSerials == 1..(MaxEmits * (1 + MaxSubscriptions))
Queued(n) == \E k \in DOMAIN bus.emitQueue : bus.emitQueue[k].n = n
HandlersRun(n) == n \in busLog.served

\* C23: an emit issued while another emit is in progress is queued, its
\* handlers are not run before those of the emit in progress, every queued
\* event is eventually delivered, and the emit in progress eventually
\* completes with the queue empty and isEmitting reset to false.
C23_Queueing ==
    /\ [](\A n \in EmitSerials :
            Queued(n) => \A k \in DOMAIN busLog.delivered : busLog.delivered[k].n # n)
    /\ \A n \in EmitSerials : Queued(n) ~> HandlersRun(n)
    /\ bus.isEmitting ~> (~bus.isEmitting /\ bus.emitQueue = <<>>)

\* ---- C24 ----
\* the handler calls of emit call n for the subscriptions of its event, in
\* the order they were made
DeliveredTo(n) ==
    SelectSeq(busLog.delivered,
              LAMBDA d : d.n = n /\ \E sub \in busLog.found[n].subs : sub.id = d.id)
SubOf(n, id) == CHOOSE sub \in busLog.found[n].subs : sub.id = id
Due(n) == {sub \in busLog.found[n].subs : FilterAccepts(sub, busLog.found[n].payload)}

\* C24: one emit invokes every handler that was subscribed to the event when
\* the emit started and whose filter accepts the payload, exactly once, in
\* non-increasing priority order and registration order among equals; a once
\* handler is gone after its invocation and no other handler is skipped.
C24_Delivery ==
    \A n \in DOMAIN busLog.found :
        HandlersRun(n) =>
            LET calls == DeliveredTo(n) IN
            /\ {calls[k].id : k \in DOMAIN calls} = {sub.id : sub \in Due(n)}
            /\ Cardinality({calls[k].id : k \in DOMAIN calls}) = Len(calls)
            /\ \A j, k \in DOMAIN calls :
                  j < k =>
                     LET a == SubOf(n, calls[j].id)
                         b == SubOf(n, calls[k].id)
                     IN  \/ a.priority > b.priority
                         \/ a.priority = b.priority /\ a.id < b.id
            /\ \A sub \in Due(n) : sub.once => sub.id \notin SubscribedIds(bus)

-----------------------------------------------------------------------------
(* ErrorHandler *)

ApiBreaker == eh.circuitBreakers["api"]
ApiBreakerNext == eh'.circuitBreakers["api"]
Elapsed(breaker, now) == now - breaker.lastFailureTime > breaker.config.recoveryTimeout

\* the failure that completes a run of failureThreshold failed executions
\* leaves the breaker OPEN
C25_Opens ==
    (eh'.streak > eh.streak /\ eh'.streak >= BreakerConfig.failureThreshold)
        => ApiBreakerNext.state = "OPEN"

\* an execute call made while the breaker is OPEN and the recovery timeout has
\* not elapsed is rejected and the operation is not invoked
C25_Rejects ==
    \A t \in Tasks :
        (/\ eh'.calls = eh.calls + 1
         /\ eh'.task[t] # eh.task[t]
         /\ eh'.task[t].kind = "execute"
         /\ Has(eh.circuitBreakers, "api")
         /\ ApiBreaker.state = "OPEN"
         /\ ~Elapsed(ApiBreaker, eh.now))
            => /\ eh'.task[t].pc = "done"
               /\ eh'.task[t].result = "thrown"
               /\ eh'.task[t].error = "Circuit breaker is OPEN"
               /\ eh'.task[t].hist = <<>>

\* the breaker leaves OPEN only for HALF_OPEN, and only once the recovery
\* timeout has elapsed
C25_LeavesOpen ==
    (/\ Has(eh.circuitBreakers, "api")
     /\ ApiBreaker.state = "OPEN"
     /\ ApiBreakerNext.state # "OPEN")
        => /\ ApiBreakerNext.state = "HALF_OPEN"
           /\ Elapsed(ApiBreaker, eh.now)

\* C25: after failureThreshold consecutive failed executions the circuit
\* breaker is OPEN; while it is OPEN and the recovery timeout has not elapsed,
\* execute rejects without invoking the operation; the breaker leaves OPEN
\* only by moving to HALF_OPEN once the recovery timeout has elapsed, never
\* directly to CLOSED.
C25_Breaker == [][C25_Opens /\ C25_Rejects /\ C25_LeavesOpen]_vars

RetryCalls == {t \in Tasks : eh.task[t].kind = "retry"}
Failed(call, k) == call.hist[k] # "ok"
Rejected(call, k) == ~RetryCondition(call.config.retryCondition, call.hist[k])

\* C26: retry invokes the operation at most maxAttempts times; it returns the
\* first successful result without invoking the operation again; when
\* retryCondition rejects the error it rethrows at once, with no further
\* attempt and no wait; otherwise it rethrows the last error right after the
\* maxAttempts-th failure.
C26_Retry ==
    \A t \in RetryCalls :
        \E call \in {eh.task[t]} : \E n \in {Len(call.hist)} :
            /\ n <= call.config.maxAttempts
            /\ \A k \in 1..(n - 1) : Failed(call, k) /\ ~Rejected(call, k)
            /\ (n >= 1 /\ ~Failed(call, n))
                  => call.pc = "done" /\ call.result = "returned" /\ call.sleeps = n - 1
            /\ (n >= 1 /\ Failed(call, n) /\ (Rejected(call, n) \/ n = call.config.maxAttempts))
                  => /\ call.pc = "done" /\ call.result = "thrown"
                     /\ call.error = call.hist[n]
                     /\ call.sleeps = n - 1
            /\ call.pc = "done" => (call.result = "returned" <=> (n >= 1 /\ ~Failed(call, n)))
            /\ call.pc = "operation" => call.sleeps = n /\ call.attempt = n + 1

\* a retry that failed maxAttempts = 3 times, waited twice and rethrew, and one
\* that stopped at an error its condition rejects while attempts were left
C26_Witness ==
    /\ \E t \in RetryCalls :
          /\ eh.task[t].pc = "done" /\ eh.task[t].result = "thrown"
          /\ Len(eh.task[t].hist) = 3 /\ eh.task[t].config.maxAttempts = 3
          /\ eh.task[t].sleeps = 2
    /\ \E t \in RetryCalls :
          /\ eh.task[t].pc = "done" /\ eh.task[t].result = "thrown"
          /\ Len(eh.task[t].hist) = 2 /\ eh.task[t].config.maxAttempts = 3
          /\ Rejected(eh.task[t], 2)

-----------------------------------------------------------------------------
(* CacheManager *)

\* C27: when every entry is set with maxSize = N, the cache holds at most N
\* entries after every set, and what a set evicts is the least recently used
\* entry: no entry that remains was last set or read before the evicted one.
C27_SizeAndLRU ==
    (cache.bounded /\ cache.op = "set")
        => /\ Len(cache.cache) <= MaxSize
           /\ \A e \in cache.evicted : \A key \in Keys(cache.cache) :
                 e.used < cache.used[key]

-----------------------------------------------------------------------------
(* AIManager *)

PassedIn(from) ==
    {k \in DOMAIN ai.passed : from <= ai.passed[k] /\ ai.passed[k] < from + windowMs}

\* C28: within any window of windowMs at most maxRequests requests of
\* generateResponse pass the rate-limit check (every further one is rejected
\* with 'Rate limit exceeded' before the cache or the API is reached).
C28_RateLimit == \A from \in 0..MaxAiTime : Cardinality(PassedIn(from)) <= maxRequests

-----------------------------------------------------------------------------
(* The handler chain *)

GenericOrder == <<"input", "textarea", "select", "dropdown">>
GenericHandlers == Range(GenericOrder)
GenericTag == [h \in GenericHandlers |-> IF h = "dropdown" THEN "button" ELSE h]

\* what a generic handler reports for the entry on the document as it stands
Reports(h, jobParam, param, fillValue) ==
    Let(workdayQuery(dom.els, page, jobParam, GenericTag[h]), LAMBDA el :
        IF h = "input" THEN handleInputElement(dom, el, jobParam, param, fillValue).ret
        ELSE IF h = "textarea" THEN handleTextareaElement(dom, el, jobParam, param, fillValue).ret
        ELSE IF h = "select" THEN handleSelectElement(dom, el, jobParam, param, fillValue).ret
        ELSE handleDropdownElement(dom, el, fillValue).ret)

\* the loop has dealt with one more entry
FieldStep == pass'.field.n = pass.field.n + 1
Written == {k \in DOMAIN dom.els : dom'.els[k] # dom.els[k]}

\* C29: an entry handed to the generic handlers is tried by input, textarea,
\* select, dropdown in this order; the first handler that reports success ends
\* the chain, the entry is removed and no later handler is invoked, so at most
\* one generic handler writes the field in an attempt.
C29_ChainOrder ==
    [][(FieldStep /\ pass'.field.inv \cap GenericHandlers # {}) =>
        \E f \in {pass'.field} : \E m \in DOMAIN GenericOrder :
            \* the handlers invoked are the first m of the order
            /\ f.inv \cap GenericHandlers = {GenericOrder[k] : k \in 1..m}
            \* all but the last of them reported no success, the last reported
            \* what the chain reports
            /\ \A k \in 1..(m - 1) :
                  Reports(GenericOrder[k], f.key, f.param, res[f.param]) # "true"
            /\ Reports(GenericOrder[m], f.key, f.param, res[f.param]) = f.ret
            \* the chain goes on to the end only when nothing succeeded
            /\ f.ret # "true" => m = Len(GenericOrder)
            \* the entry is removed
            /\ \A k \in DOMAIN EntriesNext(pass.stage) : EntriesNext(pass.stage)[k].key # f.key
            \* only the element of the handler that succeeded is written
            /\ Written \subseteq {workdayQuery(dom.els, page, f.key, GenericTag[GenericOrder[m]])}
            /\ f.ret # "true" => Written = {}
      ]_vars

\* the textarea handler wrote the field after the input handler declined, and
\* nothing else was tried
C29_Witness ==
    /\ pass.field.ret = "true"
    /\ pass.field.inv = {"input", "textarea"}
    /\ pass.field.param \notin Sentinels

\* C30: an entry whose profile field name is Resume, Skills or Work Experience
\* is handled by its composite handler only: no generic handler is invoked
\* for it, also when the composite handler reports failure.
C30_SentinelOnly ==
    pass.field.param \in Sentinels => pass.field.inv \cap GenericHandlers = {}

-----------------------------------------------------------------------------
(* The pass and the page *)

\* C31: a pass only touches the stage the page is showing: once the detected
\* stage differs from the stage the pass was triggered for, the pass writes
\* nothing to the document and removes no entry of the stage it was triggered
\* for.
C31_CurrentStageOnly ==
    [][(FieldStep /\ CurStage(page) # pass.stage)
          => /\ Written = {}
             /\ EntriesNext(pass.stage) = Entries(pass.stage)]_vars

\* C32: a stage whose entries have all been removed has no remaining work: a
\* batch that detects it is skipped, the flag stays up and no settle delay is
\* waited, so that a batch for a stage with entries is never dropped because
\* of a pass over an emptied stage.
C32_EmptiedStageSkipped ==
    [][/\ (ObserverCallback /\ CurStage(page) \in Stages /\ Entries(CurStage(page)) = <<>>)
            => UNCHANGED <<curInstanceCompleted, cb>>
       /\ (ObserverCallback /\ CurStage(page) \in Stages /\ Entries(CurStage(page)) # <<>>
             /\ ~curInstanceCompleted /\ pass.left = 0)
            => last' # "busy"]_vars

-----------------------------------------------------------------------------
(* Retries of a stage *)

KeysOf(entries) == {entries[k].key : k \in DOMAIN entries}

\* C33: an exception thrown while an entry is processed ends the attempt for
\* the whole stage; the next attempt starts with the entry that threw, and an
\* entry removed earlier in the pass is not processed again: what is
\* processed is always the first of the entries left, an entry that did not
\* throw is gone afterwards, and no entry comes back during the pass.
C33_StageRetry ==
    [][/\ FieldStep =>
            /\ pass'.field.key = Head(Entries(pass.stage)).key
            /\ pass'.field.ret = "throw" =>
                  /\ \A i \in InFlight : cb'[i].pc = "backoff"
                  /\ EntriesNext(pass.stage) = Entries(pass.stage)
                  /\ pass'.failed = pass.failed + 1
            /\ pass'.field.ret # "throw" => pass'.field.key \notin KeysOf(EntriesNext(pass.stage))
            /\ pass.field.ret = "throw" => pass'.field.key = pass.field.key
       /\ (InFlight # {} /\ pass'.stage = pass.stage /\ pass'.field.n >= pass.field.n)
            => KeysOf(EntriesNext(pass.stage)) \subseteq KeysOf(Entries(pass.stage))]_vars

\* the entry that threw has been tried again, after an earlier entry of the
\* stage was removed in the same pass
C33_Witness ==
    /\ pass.failed >= 2
    /\ pass.field.ret = "throw"
    /\ pass.field.n >= 3
    /\ Len(Entries(pass.stage)) < pass.left

\* the entry the loop handles next is a plain field without a profile value
NoDataNext ==
    /\ Entries(pass.stage) # <<>>
    /\ Head(Entries(pass.stage)).param \notin Sentinels
    /\ res[Head(Entries(pass.stage)).param] = <<>>

\* C34: a non-sentinel entry whose profile value is missing or empty is
\* removed without any handler being invoked and without any write to the
\* document, and it is not retried later in the run: no entry that was
\* removed is in the map again.
C34_NoData ==
    [][/\ (FieldStep /\ NoDataNext)
            => /\ pass'.field.inv = {}
               /\ dom' = dom
               /\ pass'.field.key \notin KeysOf(EntriesNext(pass.stage))
               /\ pass'.failed = pass.failed
       /\ \A s \in Stages : KeysOf(EntriesNext(s)) \subseteq KeysOf(Entries(s))]_vars

\* an entry without a profile value has just been dropped, and the pass goes
\* on with the entries behind it
C34_Witness ==
    /\ pass.field.ret = "nodata"
    /\ pass.field.param \notin Sentinels
    /\ pass.field.inv = {}
    /\ Entries(pass.stage) # <<>>
    /\ \E i \in Callbacks : cb[i].pc = "attempt"

-----------------------------------------------------------------------------
(* Work experience blocks over a whole run *)

\* C35: over a whole run, stage retries after an exception inside the
\* work-experience handler included, the page never holds more added
\* experience blocks than the stored resume has experiences[] entries
C35_OneClickPerEntry == dom.nblocks <= Len(Experiences)

-----------------------------------------------------------------------------
(* The label of the active step *)

\* a label that was found: a string that is not empty
Found(o) == o # None /\ o[1] # <<>>

\* C36: on the progress-bar path the label is the text at the nested position
\* of the active step; when that node is absent, the trimmed text of the
\* step; when that text is empty, the aria-label; and the detector returns
\* null, never an empty string, when none of the three yields a label
C36_LabelFallback ==
    (/\ probe.fn = "getCurStageWorkday"
     /\ probe.done
     /\ probe.form # None
     /\ probe.form[1].progressBar # None
     /\ probe.form[1].progressBar[1].active # None)
    => Let(probe.form[1].progressBar[1].active[1], LAMBDA curStep :
           /\ probe.out # Some(<<>>)
           /\ curStep.child2 # None => probe.out = curStep.child2
           /\ (curStep.child2 = None /\ Found(TrimOpt(curStep.text)))
                 => probe.out = TrimOpt(curStep.text)
           /\ (curStep.child2 = None /\ ~Found(TrimOpt(curStep.text))
                 /\ Found(TrimOpt(curStep.aria)))
                 => probe.out = TrimOpt(curStep.aria)
           /\ (curStep.child2 = None /\ ~Found(TrimOpt(curStep.text))
                 /\ ~Found(TrimOpt(curStep.aria)))
                 => probe.out = None)

-----------------------------------------------------------------------------
(* The custom dropdown *)

\* C37: the custom-dropdown handler clicks at most one option per fill
C37_OneOptionClicked == \A k \in DOMAIN dom.els : dom.els[k].nclicks <= 1

-----------------------------------------------------------------------------
(* The skills handler on its own: one call per option list and skill list *)

S_Golang == <<"G","o","l","a","n","g">>

\* how many options the probed list renders at most
MaxOptions == 3
OptionPool == {S_Go_Golang, S_Go, S_Chile}
RECURSIVE GridsOfLen(_)
GridsOfLen(n) ==
    IF n = 0 THEN {<<>>}
    ELSE {Append(g, o) : g \in GridsOfLen(n - 1), o \in OptionPool}
ProbeGrids == UNION {GridsOfLen(n) : n \in 0..MaxOptions}
ProbeSkills == {<<>>, <<S_Go>>, <<S_Golang>>, <<S_Chile>>, <<S_Golang, S_Chile>>}

SkillsInit ==
    /\ WorkdayInit(IdleScenarios)
    /\ \E g \in ProbeGrids, s \in ProbeSkills :
          probe = [fn |-> "handleSkills", grid |-> g, skills |-> s,
                   done |-> FALSE, ret |-> "none", picked |-> {}]
    /\ ContainerInit
    /\ LibInit

\* handleSkills runs on a page whose skills field is mounted and whose
\* option list is the probe's, with the probe's skills in storage
SkillsQuery ==
    /\ probe.fn = "handleSkills"
    /\ ~probe.done
    /\ \E r \in {handleSkills([dom EXCEPT !.skillsBox = "full", !.grid = probe.grid],
                              Stored(FALSE, Some([skills |-> probe.skills,
                                                  experiences |-> <<>>])))} :
          probe' = [probe EXCEPT !.done = TRUE, !.ret = r.ret, !.picked = r.dom.picked]
    /\ UNCHANGED wdVars
    /\ UNCHANGED scVars
    /\ UNCHANGED libVars

SkillsNext == SkillsQuery

SkillsSpec == SkillsInit /\ [][SkillsNext]_vars

\* the options whose label contains the skill, and those of them without "|"
Matching(grid, skill) ==
    {i \in DOMAIN grid : Includes(ToLowerCase(grid[i]), ToLowerCase(skill))}
Plain(grid, skill) ==
    {i \in Matching(grid, skill) : ~Includes(ToLowerCase(grid[i]), S_bar)}

\* C38: for each skill, among the rendered options whose label contains the
\* skill, the handler clicks one without "|" when there is one, and when
\* every matching label contains "|" it clicks one of those, not nothing
C38_SkillOption ==
    (probe.fn = "handleSkills" /\ probe.done)
    => \A k \in DOMAIN probe.skills :
          Let(Matching(probe.grid, probe.skills[k]), LAMBDA m :
          Let(Plain(probe.grid, probe.skills[k]), LAMBDA p :
              /\ p # {} => probe.picked \cap p # {}
              /\ (m # {} /\ p = {}) => probe.picked \cap m # {}))

-----------------------------------------------------------------------------
(* The HALF_OPEN call limit *)

\* C39: in HALF_OPEN the breaker admits at most halfOpenMaxCalls operations
\* before it closes or re-opens, also when several execute calls overlap
C39_HalfOpenLimit ==
    Has(eh.circuitBreakers, "api")
    => eh.halfOpenAdmitted <= eh.circuitBreakers["api"].config.halfOpenMaxCalls

=============================================================================
